---- MODULE Spec2Model ----
(***************************************************************************)
(* A model of the value-assignment engine of epkgs/object (assign.go).     *)
(*                                                                         *)
(* Go values are modelled as records [t |-> type name, v |-> payload]:     *)
(*   bool            v is a BOOLEAN                                        *)
(*   int, uint       v is an integer                                       *)
(*   string          v is a string                                         *)
(*   float           v is the number in hundredths (42.42 is 4242)         *)
(*   any             v is the held value, or NilV for an empty interface   *)
(*   struct          v is a function from declared field name to value     *)
(*   map             v is [isnil, m], m a function from key VALUE to value *)
(*   ptr             v is [isnil, p], p the pointee value                  *)
(*   slice           v is [isnil, s], s a sequence of values               *)
(*   array           v is a sequence of values of the array's length       *)
(* reflect's view of a type (Kind, Elem, Key, Len, fields) is a table over *)
(* the type names the model uses.                                          *)
(***************************************************************************)
EXTENDS Integers, Sequences, FiniteSets, TLC

\* ------------------------------------------------------------------------
\* Bounds
\* ------------------------------------------------------------------------
MaxCalls == 2
OneCall == 1

\* ------------------------------------------------------------------------
\* Types
\* ------------------------------------------------------------------------
StructTypes ==
  {"Basic", "Embedded", "EmbeddedPointer", "EmbeddedShadow", "Nested", "Map",
   "TypeConversionResult", "EmbeddedOmit", "VfooVbar", "struct{Vstring}", "Node",
   "Renamed", "OmitList", "Slice", "SlicePointer"}

Kind(t) ==
  CASE t = "bool" -> "bool"
    [] t \in {"int", "int8"} -> "int"
    [] t \in {"uint", "uint8", "uint16"} -> "uint"
    [] t = "string" -> "string"
    [] t \in {"float64", "float32"} -> "float"
    [] t = "any" -> "interface"
    [] t \in StructTypes -> "struct"
    [] t \in {"map[string]string", "map[string]any", "map[any]any",
              "map[string]int", "map[int]string"} -> "map"
    [] t \in {"*Basic", "*int", "*Embedded", "*EmbeddedPointer", "*EmbeddedOmit",
              "*Node", "*[]string", "*T"} -> "ptr"
    [] t \in {"[]int", "[]any", "[]string", "[]map[string]any",
              "[]map[string]string"} -> "slice"
    [] t \in {"[2]int", "[2]string", "[1]int", "[2]map[string]any"} -> "array"
    [] t = "chan" -> "chan"
    [] OTHER -> "invalid"

\* "*T" is the type of the pointer a caller passes as target
\* reflect.Type.Elem
ElemT(t) ==
  CASE t = "map[string]string" -> "string"
    [] t = "map[string]any" -> "any"
    [] t = "map[any]any" -> "any"
    [] t = "map[string]int" -> "int"
    [] t = "map[int]string" -> "string"
    [] t = "*Basic" -> "Basic"
    [] t = "*int" -> "int"
    [] t = "*Embedded" -> "Embedded"
    [] t = "*EmbeddedPointer" -> "EmbeddedPointer"
    [] t = "*EmbeddedOmit" -> "EmbeddedOmit"
    [] t = "*Node" -> "Node"
    [] t = "*[]string" -> "[]string"
    [] t = "[]int" -> "int"
    [] t = "[]any" -> "any"
    [] t = "[]string" -> "string"
    [] t = "[]map[string]any" -> "map[string]any"
    [] t = "[]map[string]string" -> "map[string]string"
    [] t = "[2]int" -> "int"
    [] t = "[1]int" -> "int"
    [] t = "[2]string" -> "string"
    [] t = "[2]map[string]any" -> "map[string]any"
    [] OTHER -> "invalid"

\* reflect.Type.Key
KeyT(t) ==
  CASE t \in {"map[string]string", "map[string]any", "map[string]int"} -> "string"
    [] t = "map[any]any" -> "any"
    [] t = "map[int]string" -> "int"
    [] OTHER -> "invalid"

\* reflect.Type.Len of an array type
ArrLen(t) ==
  CASE t \in {"[2]int", "[2]string", "[2]map[string]any"} -> 2
    [] t = "[1]int" -> 1
    [] OTHER -> 0

\* One declared struct field: name, type, tag pieces (strings.Split(tag, ",")),
\* anonymous (embedded) flag.
Fld(n, ty, tag, anon) == [name |-> n, type |-> ty, tag |-> tag, anon |-> anon]

NoTag == <<"">>

\* reflect.Type.Field(i), i = 1..NumField, for the record types of the tests
\* (Basic abbreviated to the fields the model's inputs use).
StructFields(t) ==
  CASE t = "Basic" ->
         << Fld("Vstring", "string", NoTag, FALSE),
            Fld("Vint", "int", NoTag, FALSE),
            Fld("Vuint", "uint", NoTag, FALSE),
            Fld("vsilent", "bool", NoTag, FALSE) >>
    [] t = "Embedded" ->
         << Fld("Basic", "Basic", NoTag, TRUE),
            Fld("Vunique", "string", NoTag, FALSE) >>
    [] t = "EmbeddedPointer" ->
         << Fld("Basic", "*Basic", NoTag, TRUE),
            Fld("Vunique", "string", NoTag, FALSE) >>
    [] t = "EmbeddedShadow" ->
         << Fld("Basic", "Basic", NoTag, TRUE),
            Fld("Vstring", "string", NoTag, FALSE) >>
    [] t = "EmbeddedOmit" ->
         << Fld("Basic", "*Basic", <<"", "omitempty">>, TRUE),
            Fld("Vunique", "string", NoTag, FALSE) >>
    [] t = "Node" ->
         << Fld("Node", "*Node", NoTag, TRUE),
            Fld("Vint", "int", NoTag, FALSE) >>
    [] t = "Nested" ->
         << Fld("Vfoo", "string", NoTag, FALSE),
            Fld("Vbar", "Basic", NoTag, FALSE) >>
    [] t = "Map" ->
         << Fld("Vfoo", "string", NoTag, FALSE),
            Fld("Vother", "map[string]string", NoTag, FALSE) >>
    [] t = "VfooVbar" ->
         << Fld("Vfoo", "string", NoTag, FALSE),
            Fld("Vbar", "struct{Vstring}", NoTag, FALSE) >>
    [] t = "struct{Vstring}" ->
         << Fld("Vstring", "string", NoTag, FALSE) >>
    [] t = "Renamed" ->
         << Fld("Vstring", "string", <<"title">>, FALSE),
            Fld("Vint", "int", <<"vint", "omitempty">>, FALSE),
            Fld("Vuint", "uint", <<"-">>, FALSE),
            Fld("Vextra", "string", NoTag, FALSE) >>
    [] t = "OmitList" ->
         << Fld("Vfoo", "string", NoTag, FALSE),
            Fld("Vlist", "[]any", <<"vlist", "omitempty">>, FALSE) >>
    [] t = "Slice" ->
         << Fld("Vfoo", "string", NoTag, FALSE),
            Fld("Vbar", "[]string", NoTag, FALSE) >>
    [] t = "SlicePointer" ->
         << Fld("Vbar", "*[]string", NoTag, FALSE) >>
    [] t = "TypeConversionResult" ->
         << Fld("BoolToInt", "int", NoTag, FALSE),
            Fld("IntToString", "string", NoTag, FALSE),
            Fld("UintToInt", "int", NoTag, FALSE) >>
    [] OTHER -> << >>

FieldNames(t) ==
  LET names(fields) == { fields[i].name : i \in 1..Len(fields) }
  IN  names(StructFields(t))

FieldType(t, f) ==
  LET typeIn(fields) == fields[CHOOSE i \in 1..Len(fields) : fields[i].name = f].type
  IN  typeIn(StructFields(t))

\* ------------------------------------------------------------------------
\* Values
\* ------------------------------------------------------------------------
V(t, p) == [t |-> t, v |-> p]

\* the untyped nil interface value (source == nil)
NilV == [t |-> "nil", v |-> 0]
IsNil(x) == x.t = "nil"

IntV(n) == V("int", n)
StrV(s) == V("string", s)
BoolV(b) == V("bool", b)
AnyV(x) == V("any", x)

EmptyFn == [x \in {} |-> NilV]

MapV(t, m) == V(t, [isnil |-> FALSE, m |-> m])
NilMapV(t) == V(t, [isnil |-> TRUE, m |-> EmptyFn])
SliceV(t, s) == V(t, [isnil |-> FALSE, s |-> s])
NilSliceV(t) == V(t, [isnil |-> TRUE, s |-> << >>])
PtrV(t, p) == V(t, [isnil |-> FALSE, p |-> p])
NilPtrV(t) == V(t, [isnil |-> TRUE, p |-> NilV])

\* reflect.Zero(t)
RECURSIVE Zero(_)
Zero(t) ==
  LET zeroStruct(fields) ==
        V(t, [f \in { fields[i].name : i \in 1..Len(fields) } |->
                Zero(fields[CHOOSE i \in 1..Len(fields) : fields[i].name = f].type)])
      zeroOf(kind) ==
        CASE kind = "bool" -> V(t, FALSE)
          [] kind \in {"int", "uint"} -> V(t, 0)
          [] kind = "string" -> V(t, "")
          [] kind = "float" -> V(t, 0)
          [] kind = "interface" -> V(t, NilV)
          [] kind = "struct" -> zeroStruct(StructFields(t))
          [] kind = "map" -> NilMapV(t)
          [] kind = "ptr" -> NilPtrV(t)
          [] kind = "slice" -> NilSliceV(t)
          [] kind = "array" -> V(t, [i \in 1..ArrLen(t) |-> Zero(ElemT(t))])
          [] OTHER -> NilV
  IN  zeroOf(Kind(t))

\* reflect.StructField.IsExported
IsExported(name) == name # "vsilent"

\* reflect.Value.Interface(): the dynamic value held by an interface slot
Interface(x) == IF Kind(x.t) = "interface" THEN x.v ELSE x

\* reflect.Indirect(reflect.ValueOf(source)); NilV stands for the invalid Value
Indirect(x) ==
  IF Kind(x.t) = "ptr" THEN (IF x.v.isnil THEN NilV ELSE x.v.p) ELSE x

\* reflect.Value.Len
LenOf(x) ==
  LET lenOf(kind) ==
        CASE kind = "map" -> Cardinality(DOMAIN x.v.m)
          [] kind = "slice" -> Len(x.v.s)
          [] kind = "array" -> Len(x.v)
          [] kind = "string" -> 0
          [] OTHER -> 0
  IN  lenOf(Kind(x.t))

\* reflect.Value.Index(i), i counted from 0
IndexOf(x, i) == IF Kind(x.t) = "slice" THEN x.v.s[i + 1] ELSE x.v[i + 1]

\* ------------------------------------------------------------------------
\* Errors (Error and appendErrors are outside src/: an aggregate is a list
\* of messages, appendErrors flattens an aggregate into the list)
\* ------------------------------------------------------------------------
NoErr == [kind |-> "nil", msgs |-> << >>]
Errorf(msg) == [kind |-> "plain", msgs |-> << msg >>]
AggErr(msgs) == [kind |-> "aggregate", msgs |-> msgs]
appendErrors(errors, e) == errors \o e.msgs
ErrOf(errors) == IF Len(errors) > 0 THEN AggErr(errors) ELSE NoErr

\* ------------------------------------------------------------------------
\* Key paths
\* ------------------------------------------------------------------------
genFullKey(parentKind, parentFull, keyName) ==
  IF parentKind # "invalid"
  THEN IF parentFull = "" THEN keyName
       ELSE IF keyName = "" THEN parentFull
       ELSE IF parentKind \in {"map", "array", "slice"}
            THEN parentFull \o "[" \o keyName \o "]"
            ELSE parentFull \o "." \o keyName
  ELSE keyName

newChild(k, parentKind, fieldName) == genFullKey(parentKind, k, fieldName)

\* the decimal digit d as text
Digit(d) ==
  CASE d = 0 -> "0" [] d = 1 -> "1" [] d = 2 -> "2" [] d = 3 -> "3" [] d = 4 -> "4"
    [] d = 5 -> "5" [] d = 6 -> "6" [] d = 7 -> "7" [] d = 8 -> "8" [] OTHER -> "9"

\* strconv.FormatUint(n, 10): the digits of n, most significant first
RECURSIVE FormatUint(_)
FormatUint(n) == IF n < 10 THEN Digit(n) ELSE FormatUint(n \div 10) \o Digit(n % 10)

\* a mutant of FormatInt: the sign is dropped
FormatIntUnsigned(n) == IF n < 0 THEN FormatUint(-n) ELSE FormatUint(n)

\* strconv.FormatInt(n, 10)
FormatInt(n) == IF n < 0 THEN "-" \o FormatUint(-n) ELSE FormatUint(n)

\* strconv.Itoa
Itoa(i) == FormatInt(i)

\* ------------------------------------------------------------------------
\* Configuration and metadata
\* ------------------------------------------------------------------------
\* AssignConfig; Metadata is the sink's presence, the lists are threaded
\* through the traversal as md.
Config(weak, skipKeys, hasMeta) ==
  [WeaklyTypedInput |-> weak, TagName |-> "json", IncludeIgnoreFields |-> FALSE,
   SkipKeys |-> skipKeys, SkipSameValues |-> FALSE, Metadata |-> hasMeta]

\* an assigner: its config, and what the run leaves to the implementation:
\* the order in which this run's Go maps iterate, and the architecture the
\* program was built for
AssignerOn(config, iter, arch) == [config |-> config, iter |-> iter, arch |-> arch]

Architectures == {"amd64", "arm64"}

Assigner(config, iter) == AssignerOn(config, iter, "amd64")

defaultAssigner(iter) == Assigner(Config(FALSE, << >>, FALSE), iter)
weakAssigner(iter) == Assigner(Config(TRUE, << >>, FALSE), iter)

\* a Metadata value; init is FALSE while the three lists are still nil
EmptyMeta == [Keys |-> << >>, Unused |-> << >>, Unset |-> << >>, init |-> FALSE]

\* a mutant of addMetaKey: the key is put in front of the list
addMetaKeyInFront(a, md, targetKey) ==
  IF ~a.config.Metadata THEN md
  ELSE IF targetKey = "" THEN md
  ELSE [md EXCEPT !.Keys = << targetKey >> \o @]

addMetaKey(a, md, targetKey) ==
  IF ~a.config.Metadata THEN md
  ELSE IF targetKey = "" THEN md
  ELSE [md EXCEPT !.Keys = Append(@, targetKey)]

addMetaUnused(a, md, sourceKey) ==
  IF ~a.config.Metadata THEN md
  ELSE IF sourceKey = "" THEN md
  ELSE [md EXCEPT !.Unused = Append(@, sourceKey)]

\* a mutant of addMetaUnset: nothing is recorded
addMetaUnsetNothing(a, md, targetKey) == md

addMetaUnset(a, md, targetKey) ==
  IF ~a.config.Metadata THEN md
  ELSE IF targetKey = "" THEN md
  ELSE [md EXCEPT !.Unset = Append(@, targetKey)]

\* a mutant of shouldSkipKey: the skipped paths are not recorded
shouldSkipKeyUnrecorded(a, md, targetKey, sourceKey) ==
  [skip |-> targetKey # "" /\ sourceKey # ""
              /\ \E i \in 1..Len(a.config.SkipKeys) :
                    targetKey = a.config.SkipKeys[i] \/ sourceKey = a.config.SkipKeys[i],
   md |-> md]

\* shouldSkipKey: [skip, md]
shouldSkipKey(a, md, targetKey, sourceKey) ==
  IF targetKey = "" \/ sourceKey = "" THEN [skip |-> FALSE, md |-> md]
  ELSE IF \E i \in 1..Len(a.config.SkipKeys) :
            targetKey = a.config.SkipKeys[i] \/ sourceKey = a.config.SkipKeys[i]
       THEN [skip |-> TRUE,
             md |-> addMetaUnset(a, addMetaUnused(a, md, sourceKey), targetKey)]
       ELSE [skip |-> FALSE, md |-> md]

\* the result of one handler: the target slot's new value, the returned
\* error, the metadata lists, assignPtr's first result, and whether the
\* call panicked inside reflect
\* src is the source struct as flattenStruct left it (NilV: untouched).
Res(val, err, md) ==
  [val |-> val, err |-> err, md |-> md, addKey |-> TRUE, panic |-> FALSE,
   src |-> NilV]
Panic(val, md) ==
  [val |-> val, err |-> Errorf("panic"), md |-> md, addKey |-> TRUE, panic |-> TRUE,
   src |-> NilV]

\* ------------------------------------------------------------------------
\* Field names
\* ------------------------------------------------------------------------
\* the default Converter, lower camel case of the declared name
toLowerCamel(n) ==
  CASE n = "Vstring" -> "vstring" [] n = "Vint" -> "vint" [] n = "Vuint" -> "vuint"
    [] n = "Vunique" -> "vunique" [] n = "Vfoo" -> "vfoo" [] n = "Vbar" -> "vbar"
    [] n = "Vother" -> "vother" [] n = "Basic" -> "basic" [] n = "Vextra" -> "vextra"
    [] n = "BoolToInt" -> "boolToInt" [] n = "IntToString" -> "intToString"
    [] n = "UintToInt" -> "uintToInt" [] n = "vsilent" -> "vsilent"
    [] OTHER -> n

\* field.Tag.Get(TagName) split at commas
TagGet(field, tagName) == IF tagName = "json" THEN field.tag ELSE NoTag

parseTag(a, field) ==
  LET parsed(pices, omitempty) ==
        IF Len(pices) = 0 \/ pices[1] = ""
        THEN [actualName |-> toLowerCamel(field.name), omitempty |-> omitempty,
              skip |-> FALSE]
        ELSE IF pices[1] = "-"
             THEN IF a.config.IncludeIgnoreFields
                  THEN [actualName |-> toLowerCamel(field.name), omitempty |-> omitempty,
                        skip |-> FALSE]
                  ELSE [actualName |-> "", omitempty |-> omitempty, skip |-> TRUE]
             ELSE [actualName |-> pices[1], omitempty |-> omitempty, skip |-> FALSE]
  IN  parsed(TagGet(field, a.config.TagName),
             \E i \in 1..Len(TagGet(field, a.config.TagName)) :
                TagGet(field, a.config.TagName)[i] = "omitempty")

\* ------------------------------------------------------------------------
\* Scalar conversions
\* ------------------------------------------------------------------------
\* reflect.Type.Bits
Bits(t) ==
  CASE t \in {"int8", "uint8"} -> 8
    [] t = "uint16" -> 16
    [] OTHER -> 64

\* a mutant of SetInt: the value stored is one more than the value given
SetIntOneMore(t, x) == V(t, x + 1)

\* reflect.Value.SetInt: the value is truncated to the target's width
\* (64-bit values of the model stay in range)
SetInt(t, x) ==
  IF Bits(t) = 8 THEN V(t, ((x + 128) % 256) - 128) ELSE V(t, x)

\* reflect.Value.SetUint(uint64(x)): the value is truncated to the target's
\* width (a 64-bit value beyond 2^63 - 1 is held as its signed reading)
SetUint(t, x) == IF Bits(t) < 64 THEN V(t, x % (2 ^ Bits(t))) ELSE V(t, x)

\* a mutant of TruncFloat: the float is rounded down
TruncFloatFloors(f) == IF f >= 0 THEN f \div 100 ELSE -((99 - f) \div 100)

\* int64(f), truncation toward zero, f in hundredths
TruncFloat(f) == IF f >= 0 THEN f \div 100 ELSE -((-f) \div 100)

\* uint64(f) of a float64, f in hundredths. The conversion of a negative
\* value is left to the implementation: amd64 converts through int64 and
\* wraps, arm64 saturates at 0.
FloatToUint64(arch, f) ==
  IF f >= 0 THEN TruncFloat(f)
  ELSE IF arch = "arm64" THEN 0 ELSE TruncFloat(f)

\* strconv.FormatFloat(f, 'f', -1, 64), f in hundredths
FormatFloat(f) ==
  IF f % 100 = 0 THEN FormatInt(f \div 100)
  ELSE IF f = 4242 THEN "42.42" ELSE "F"

\* the value of the character c as a digit; 99 when it is none
DigitVal(c) ==
  CASE c = "0" -> 0 [] c = "1" -> 1 [] c = "2" -> 2 [] c = "3" -> 3 [] c = "4" -> 4
    [] c = "5" -> 5 [] c = "6" -> 6 [] c = "7" -> 7 [] c = "8" -> 8 [] c = "9" -> 9
    [] c \in {"a", "A"} -> 10 [] c \in {"b", "B"} -> 11 [] c \in {"c", "C"} -> 12
    [] c \in {"d", "D"} -> 13 [] c \in {"e", "E"} -> 14 [] c \in {"f", "F"} -> 15
    [] OTHER -> 99

\* the digit loop of strconv.ParseUint: a character that is no digit of the
\* base is a syntax error, a value above max a range error. The texts of
\* the model hold no underscore.
RECURSIVE parseDigits(_, _, _, _)
parseDigits(str, base, max, n) ==
  IF str = "" THEN [ok |-> TRUE, v |-> n]
  ELSE LET d == DigitVal(Head(str))
       IN IF d >= base THEN [ok |-> FALSE, v |-> 0]
          ELSE IF n * base + d > max THEN [ok |-> FALSE, v |-> max]
          ELSE parseDigits(Tail(str), base, max, n * base + d)

\* strconv.ParseUint(str, 0, bits) for a value of at most max: base 0 takes
\* the base from the prefix (0b, 0o, 0x, a leading 0 for octal, else 10)
parseUintMax(str, max) ==
  IF str = "" THEN [ok |-> FALSE, v |-> 0]
  ELSE IF Head(str) = "0"
       THEN IF Len(str) >= 3 /\ SubSeq(str, 2, 2) \in {"b", "B"}
            THEN parseDigits(SubSeq(str, 3, Len(str)), 2, max, 0)
            ELSE IF Len(str) >= 3 /\ SubSeq(str, 2, 2) \in {"o", "O"}
            THEN parseDigits(SubSeq(str, 3, Len(str)), 8, max, 0)
            ELSE IF Len(str) >= 3 /\ SubSeq(str, 2, 2) \in {"x", "X"}
            THEN parseDigits(SubSeq(str, 3, Len(str)), 16, max, 0)
            ELSE parseDigits(Tail(str), 8, max, 0)
       ELSE parseDigits(str, 10, max, 0)

\* the largest value the text of the model can hold in 64 bits
MaxText == 999999

\* strconv.ParseUint(str, 0, bits): [ok, v]
ParseUint(str, bits) ==
  parseUintMax(str, IF bits < 64 THEN 2 ^ bits - 1 ELSE MaxText)

\* strconv.ParseInt(str, 0, bits): [ok, v]; the sign is taken off and the
\* rest parsed as unsigned, of at most 2^(bits-1)-1, or 2^(bits-1) after '-'
ParseInt(str, bits) ==
  IF str = "" THEN [ok |-> FALSE, v |-> 0]
  ELSE LET neg == Head(str) = "-"
           rest == IF Head(str) \in {"+", "-"} THEN Tail(str) ELSE str
           cutoff == IF bits < 64 THEN 2 ^ (bits - 1) ELSE MaxText + 1
           un == parseUintMax(rest, IF neg THEN cutoff ELSE cutoff - 1)
       IN IF ~un.ok THEN [ok |-> FALSE, v |-> 0]
          ELSE [ok |-> TRUE, v |-> IF neg THEN -un.v ELSE un.v]

\* strconv.ParseFloat(str, 64) in hundredths: [ok, v]. The texts of the
\* model are decimal, with at most two digits after the point and no
\* exponent.
ParseFloat(str) ==
  LET neg == str # "" /\ Head(str) = "-"
      rest == IF str # "" /\ Head(str) \in {"+", "-"} THEN Tail(str) ELSE str
      dots == { i \in 1..Len(rest) : SubSeq(rest, i, i) = "." }
      dot == IF dots = {} THEN Len(rest) + 1 ELSE CHOOSE i \in dots : \A j \in dots : i <= j
      whole == SubSeq(rest, 1, dot - 1)
      frac == SubSeq(rest, dot + 1, Len(rest))
      w == parseDigits(whole, 10, MaxText, 0)
      f == parseDigits(frac, 10, 99, 0)
      hundredths == w.v * 100 + (IF Len(frac) = 1 THEN f.v * 10 ELSE f.v)
  IN  IF whole \o frac = "" \/ ~w.ok \/ ~f.ok THEN [ok |-> FALSE, v |-> 0]
      ELSE [ok |-> TRUE, v |-> IF neg THEN -hundredths ELSE hundredths]

\* strconv.ParseBool
ParseBool(str) ==
  IF str \in {"1", "t", "T", "TRUE", "true", "True"} THEN [ok |-> TRUE, v |-> TRUE]
  ELSE IF str \in {"0", "f", "F", "FALSE", "false", "False"} THEN [ok |-> TRUE, v |-> FALSE]
  ELSE [ok |-> FALSE, v |-> FALSE]

Unconvertible(targetKey) == Errorf("unconvertible type for '" \o targetKey \o "'")

\* a mutant of failUnconvertible: the target is zeroed before the error
failUnconvertibleZeroes(targetVal, targetKey, md) ==
  Res(Zero(targetVal.t), Unconvertible(targetKey), md)

\* the default branch of a scalar conversion: the error is returned and
\* nothing is written
failUnconvertible(targetVal, targetKey, md) ==
  Res(targetVal, Unconvertible(targetKey), md)

assignString(a, targetVal, targetKey, source, sourceKey, md) ==
  LET weak == a.config.WeaklyTypedInput
      t == targetVal.t
      switch(sourceVal, sourceKind) ==
        CASE sourceKind = "string" -> Res(V(t, sourceVal.v), NoErr, md)
          [] sourceKind = "bool" /\ weak ->
               Res(V(t, IF sourceVal.v THEN "1" ELSE "0"), NoErr, md)
          [] sourceKind = "int" /\ weak -> Res(V(t, FormatInt(sourceVal.v)), NoErr, md)
          [] sourceKind = "uint" /\ weak -> Res(V(t, FormatUint(sourceVal.v)), NoErr, md)
          [] sourceKind = "float" /\ weak -> Res(V(t, FormatFloat(sourceVal.v)), NoErr, md)
          [] OTHER -> failUnconvertible(targetVal, targetKey, md)
  IN  switch(Indirect(source), Kind(Indirect(source).t))

assignInt(a, targetVal, targetKey, source, sourceKey, md) ==
  LET weak == a.config.WeaklyTypedInput
      t == targetVal.t
      switch(sourceVal, sourceKind) ==
        CASE sourceKind = "int" -> Res(SetInt(t, sourceVal.v), NoErr, md)
          [] sourceKind = "uint" -> Res(SetInt(t, sourceVal.v), NoErr, md)
          [] sourceKind = "float" -> Res(SetInt(t, TruncFloat(sourceVal.v)), NoErr, md)
          [] sourceKind = "bool" /\ weak ->
               Res(SetInt(t, IF sourceVal.v THEN 1 ELSE 0), NoErr, md)
          [] sourceKind = "string" /\ weak ->
               LET str == IF sourceVal.v = "" THEN "0" ELSE sourceVal.v
                   r == ParseInt(str, Bits(t))
               IN  IF r.ok THEN Res(SetInt(t, r.v), NoErr, md)
                   ELSE Res(targetVal,
                            Errorf("cannot parse '" \o targetKey \o "' as int"), md)
          [] OTHER -> failUnconvertible(targetVal, targetKey, md)
  IN  switch(Indirect(source), Kind(Indirect(source).t))

assignUint(a, targetVal, targetKey, source, sourceKey, md) ==
  LET weak == a.config.WeaklyTypedInput
      t == targetVal.t
      switch(sourceVal, sourceKind) ==
        CASE sourceKind = "int" ->
               IF sourceVal.v < 0 /\ ~weak
               THEN Res(targetVal,
                        Errorf("cannot parse '" \o targetKey \o "', overflows uint"), md)
               ELSE Res(SetUint(t, sourceVal.v), NoErr, md)
          [] sourceKind = "uint" -> Res(SetUint(t, sourceVal.v), NoErr, md)
          [] sourceKind = "float" ->
               IF sourceVal.v < 0 /\ ~weak
               THEN Res(targetVal,
                        Errorf("cannot parse '" \o targetKey \o "', overflows uint"), md)
               ELSE Res(SetUint(t, FloatToUint64(a.arch, sourceVal.v)), NoErr, md)
          [] sourceKind = "bool" /\ weak ->
               Res(SetUint(t, IF sourceVal.v THEN 1 ELSE 0), NoErr, md)
          [] sourceKind = "string" /\ weak ->
               LET str == IF sourceVal.v = "" THEN "0" ELSE sourceVal.v
                   r == ParseUint(str, Bits(t))
               IN  IF r.ok THEN Res(SetUint(t, r.v), NoErr, md)
                   ELSE Res(targetVal,
                            Errorf("cannot parse '" \o targetKey \o "' as uint"), md)
          [] OTHER -> failUnconvertible(targetVal, targetKey, md)
  IN  switch(Indirect(source), Kind(Indirect(source).t))

assignBool(a, targetVal, targetKey, source, sourceKey, md) ==
  LET weak == a.config.WeaklyTypedInput
      t == targetVal.t
      switch(sourceVal, sourceKind) ==
        CASE sourceKind = "bool" -> Res(V(t, sourceVal.v), NoErr, md)
          [] sourceKind \in {"int", "uint", "float"} /\ weak ->
               Res(V(t, sourceVal.v # 0), NoErr, md)
          [] sourceKind = "string" /\ weak ->
               LET r == ParseBool(sourceVal.v)
               IN  IF r.ok THEN Res(V(t, r.v), NoErr, md)
                   ELSE IF sourceVal.v = "" THEN Res(V(t, FALSE), NoErr, md)
                   ELSE Res(targetVal,
                            Errorf("cannot parse '" \o targetKey \o "' as bool"), md)
          [] OTHER -> failUnconvertible(targetVal, targetKey, md)
  IN  switch(Indirect(source), Kind(Indirect(source).t))

assignFloat(a, targetVal, targetKey, source, sourceKey, md) ==
  LET weak == a.config.WeaklyTypedInput
      t == targetVal.t
      switch(sourceVal, sourceKind) ==
        CASE sourceKind \in {"int", "uint"} -> Res(V(t, sourceVal.v * 100), NoErr, md)
          [] sourceKind = "float" -> Res(V(t, sourceVal.v), NoErr, md)
          [] sourceKind = "bool" /\ weak ->
               Res(V(t, IF sourceVal.v THEN 100 ELSE 0), NoErr, md)
          [] sourceKind = "string" /\ weak ->
               LET str == IF sourceVal.v = "" THEN "0" ELSE sourceVal.v
                   r == ParseFloat(str)
               IN  IF r.ok THEN Res(V(t, r.v), NoErr, md)
                   ELSE Res(targetVal,
                            Errorf("cannot parse '" \o targetKey \o "' as float"), md)
          [] OTHER -> failUnconvertible(targetVal, targetKey, md)
  IN  switch(Indirect(source), Kind(Indirect(source).t))

\* ------------------------------------------------------------------------
\* Iteration order of Go maps: the keys of kf (a function from key to its
\* printed form) in the order their printed forms have in iter
\* ------------------------------------------------------------------------
Rank(iter, str) ==
  IF \E i \in 1..Len(iter) : iter[i] = str
  THEN CHOOSE i \in 1..Len(iter) : iter[i] = str
  ELSE Len(iter) + 1

RECURSIVE MapRange(_, _)
MapRange(iter, kf) ==
  IF DOMAIN kf = {} THEN << >>
  ELSE LET e == CHOOSE x \in DOMAIN kf :
                  \A y \in DOMAIN kf : Rank(iter, kf[x]) <= Rank(iter, kf[y])
       IN  << e >> \o MapRange(iter, [x \in DOMAIN kf \ {e} |-> kf[x]])

\* fmt.Sprintf("%v", key.Interface())
Sprintv(key) ==
  LET verb(k, kind) ==
        CASE kind = "string" -> k.v
          [] kind \in {"int", "uint"} -> Itoa(k.v)
          [] kind = "bool" -> IF k.v THEN "true" ELSE "false"
          [] OTHER -> "<nil>"
  IN  verb(Interface(key), Kind(Interface(key).t))

\* reflect.Value.String() of a map key
ValueString(key) ==
  IF Kind(key.t) = "string" THEN key.v ELSE "<interface {} Value>"

\* ------------------------------------------------------------------------
\* Slots inside a struct value: a path is the sequence of declared field
\* names from the root, an embedded pointer on the way being dereferenced
\* ------------------------------------------------------------------------
Deref(x) == IF Kind(x.t) = "ptr" THEN x.v.p ELSE x

RECURSIVE GetPath(_, _)
GetPath(root, path) ==
  IF path = << >> THEN root
  ELSE GetPath(Deref(root).v[Head(path)], Tail(path))

RECURSIVE SetPath(_, _, _)
SetPath(root, path, x) ==
  IF path = << >> THEN x
  ELSE IF Kind(root.t) = "ptr"
       THEN PtrV(root.t, SetPath(root.v.p, path, x))
       ELSE V(root.t, [root.v EXCEPT ![Head(path)] = SetPath(@, Tail(path), x)])

\* reflect.Value.IsZero
IsZero(x) == x = Zero(x.t)

\* ------------------------------------------------------------------------
\* flattenStruct: the worklist of structs (paths from the root), and for
\* each one the loop over its fields. st = [root, structs, fields]: the root
\* value (an embedded nil pointer is allocated in it when it can be set),
\* the worklist, and the map declared name -> fieldInfo.
\* fieldInfo.fieldVal is the slot: its path, or a detached zero value.
\* ------------------------------------------------------------------------
fieldInfo(field, path, cur, fieldVal, tag) ==
  [displayName |-> field.name, actualName |-> tag.actualName,
   omitempty |-> tag.omitempty, type |-> field.type, path |-> path,
   detached |-> cur.detached, dval |-> fieldVal, canSet |-> cur.settable]

\* a worklist entry: the struct at path (or the detached value dval), and
\* whether its fields can be set
QEntry(path, detached, dval, settable) ==
  [path |-> path, detached |-> detached, dval |-> dval, settable |-> settable]

QStruct(st, cur) ==
  IF cur.detached THEN cur.dval ELSE Deref(GetPath(st.root, cur.path))

\* a mutant of registerField: a later field of the same name replaces the
\* earlier one
registerFieldOverwrites(fields, name, info) ==
  [n \in DOMAIN fields \cup {name} |-> IF n = name THEN info ELSE fields[n]]

\* fields[field.Name] = fieldInfo{...} unless the name is already there
registerField(fields, name, info) ==
  IF name \in DOMAIN fields THEN fields
  ELSE [n \in DOMAIN fields \cup {name} |-> IF n = name THEN info ELSE fields[n]]

\* one iteration of the loop over structType.Field(i): field is the
\* declared field, fieldVal its value in the struct taken off the worklist
flattenField(a, st, cur, field, fieldVal) ==
  LET path == Append(cur.path, field.name)
      visit(tag, elem) ==
        IF ~IsExported(field.name) THEN st
        ELSE IF tag.skip THEN st
        ELSE IF tag.omitempty /\ IsZero(fieldVal) THEN st
        ELSE IF field.anon /\ Kind(field.type) = "ptr"
                /\ Kind(ElemT(field.type)) = "struct"
             THEN IF fieldVal.v.isnil /\ cur.settable /\ ~cur.detached
                  THEN [st EXCEPT
                          !.root = SetPath(st.root, path, PtrV(field.type, elem)),
                          !.structs = Append(@, QEntry(path, FALSE, NilV, TRUE))]
                  ELSE IF fieldVal.v.isnil
                       THEN [st EXCEPT !.structs =
                               Append(@, QEntry(path, TRUE, elem, TRUE))]
                       ELSE [st EXCEPT !.structs =
                               Append(@, QEntry(path, cur.detached, fieldVal.v.p, TRUE))]
        ELSE IF field.anon /\ Kind(field.type) = "struct"
             THEN [st EXCEPT !.structs =
                     Append(@, QEntry(path, cur.detached, fieldVal, cur.settable))]
        ELSE [st EXCEPT !.fields =
                registerField(@, field.name,
                              fieldInfo(field, path, cur, fieldVal, tag))]
  \* elem: reflect.New(fieldType.Elem()).Elem() of a pointer field
  IN  visit(parseTag(a, field), Zero(ElemT(field.type)))

\* the loop over the fields of structVal, from the i-th on
RECURSIVE flattenFields(_, _, _, _, _)
flattenFields(a, st, cur, structVal, i) ==
  LET fields == StructFields(structVal.t)
  IN  IF i > Len(fields) THEN st
      ELSE flattenFields(a, flattenField(a, st, cur, fields[i], structVal.v[fields[i].name]),
                         cur, structVal, i + 1)

\* one iteration of `for len(structs) > 0`: the head of the worklist is
\* taken off and its fields are walked
flattenIter(a, st) ==
  flattenFields(a, [st EXCEPT !.structs = Tail(@)], Head(st.structs),
                QStruct(st, Head(st.structs)), 1)

RECURSIVE flattenLoop(_, _)
flattenLoop(a, st) ==
  IF Len(st.structs) = 0 THEN st ELSE flattenLoop(a, flattenIter(a, st))

\* structs[0] = val, fields = {}
flattenStart(val, canSet) ==
  [root |-> val,
   structs |-> << QEntry(<< >>, FALSE, NilV, canSet) >>,
   fields |-> [n \in {} |-> NilV]]

flattenStruct(a, val, canSet) == flattenLoop(a, flattenStart(val, canSet))

\* the current value of a flattened field's slot
SlotGet(root, info) == IF info.detached THEN info.dval ELSE GetPath(root, info.path)
\* a mutant of SlotSet: the write resets the rest of the record
SlotSetAlone(root, info, x) ==
  IF info.detached THEN root ELSE SetPath(Zero(root.t), info.path, x)

\* a write to the slot: a detached slot is not part of the root
SlotSet(root, info, x) == IF info.detached THEN root ELSE SetPath(root, info.path, x)

\* ------------------------------------------------------------------------
\* The recursive traversal
\* ------------------------------------------------------------------------
\* v.IsNil() for the kinds assignPtr tests (Chan, Func, Interface, Map, Ptr, Slice)
IsNilValue(x) ==
  LET isNil(kind) ==
        CASE kind \in {"map", "slice", "ptr"} -> x.v.isnil
          [] kind = "interface" -> IsNil(x.v)
          [] OTHER -> FALSE
  IN  isNil(Kind(x.t))

\* reflect.DeepEqual(targetVal.Interface(), source)
DeepEqual(x, y) == x = y

SupportedKinds ==
  {"bool", "interface", "string", "int", "uint", "float", "struct", "map", "ptr",
   "slice", "array"}

\* a mutant of absentResult: an absent source zeroes the target
absentErases(targetVal, md) == Res(Zero(targetVal.t), NoErr, md)

\* assign, `if source == nil { return nil }`: nothing is written
absentResult(targetVal, md) == Res(targetVal, NoErr, md)

RECURSIVE assign(_, _, _, _, _, _)
RECURSIVE assignBasic(_, _, _, _, _, _)
RECURSIVE assignPtr(_, _, _, _, _, _)
RECURSIVE assignMap(_, _, _, _, _, _)
RECURSIVE assignMapFromMap(_, _, _, _, _, _)
RECURSIVE assignMapFromSlice(_, _, _, _, _, _)
RECURSIVE assignMapFromStruct(_, _, _, _, _, _)
RECURSIVE assignSlice(_, _, _, _, _, _)
RECURSIVE assignArray(_, _, _, _, _, _)
RECURSIVE assignStruct(_, _, _, _, _, _)
RECURSIVE assignStructFromMap(_, _, _, _, _, _)
RECURSIVE assignStructFromStruct(_, _, _, _, _, _)

\* assign, `switch targetKind`: the handler of the target's kind
assignKind(a, targetKind, targetVal, targetKey, source, sourceKey, md) ==
  CASE targetKind = "bool" ->
         assignBool(a, targetVal, targetKey, source, sourceKey, md)
    [] targetKind = "interface" ->
         assignBasic(a, targetVal, targetKey, source, sourceKey, md)
    [] targetKind = "string" ->
         assignString(a, targetVal, targetKey, source, sourceKey, md)
    [] targetKind = "int" ->
         assignInt(a, targetVal, targetKey, source, sourceKey, md)
    [] targetKind = "uint" ->
         assignUint(a, targetVal, targetKey, source, sourceKey, md)
    [] targetKind = "float" ->
         assignFloat(a, targetVal, targetKey, source, sourceKey, md)
    [] targetKind = "struct" ->
         assignStruct(a, targetVal, targetKey, source, sourceKey, md)
    [] targetKind = "map" ->
         assignMap(a, targetVal, targetKey, source, sourceKey, md)
    [] targetKind = "ptr" ->
         assignPtr(a, targetVal, targetKey, source, sourceKey, md)
    [] targetKind = "slice" ->
         assignSlice(a, targetVal, targetKey, source, sourceKey, md)
    [] targetKind = "array" ->
         assignArray(a, targetVal, targetKey, source, sourceKey, md)

\* a mutant of markKey: no path is recorded in Keys
markKeyNever(a, r, targetKey) == IF r.panic THEN r ELSE [r EXCEPT !.addKey = TRUE]

\* assign, after the switch: `if addMetaKey { a.addMetaKey(targetKey) }`,
\* r the handler's result
markKey(a, r, targetKey) ==
  IF r.panic THEN r
  ELSE IF r.addKey THEN [r EXCEPT !.md = addMetaKey(a, @, targetKey)]
  ELSE [r EXCEPT !.addKey = TRUE]

\* a typed nil: `sourceVal.Kind() == reflect.Ptr && sourceVal.IsNil()`
typedNil(source) == ~IsNil(source) /\ Kind(source.t) = "ptr" /\ source.v.isnil

\* assign: source is the dynamic value of the `any` parameter, NilV for nil
assign(a, targetVal, targetKey, source, sourceKey, md) ==
  IF shouldSkipKey(a, md, targetKey, sourceKey).skip
  THEN Res(targetVal, NoErr, shouldSkipKey(a, md, targetKey, sourceKey).md)
  ELSE IF IsNil(source) \/ typedNil(source) THEN absentResult(targetVal, md)
  ELSE IF a.config.SkipSameValues /\ DeepEqual(Interface(targetVal), source)
       THEN Res(targetVal, NoErr,
                addMetaUnset(a, addMetaUnused(a, md, sourceKey), targetKey))
  ELSE IF Kind(targetVal.t) \notin SupportedKinds
       THEN Res(targetVal, Errorf(targetKey \o ": unsupported type"), md)
  ELSE markKey(a,
               assignKind(a, Kind(targetVal.t), targetVal, targetKey, source,
                          sourceKey, md),
               targetKey)

\* assignBasic: the polymorphic slot. A held value is never addressable, so
\* the assignment goes through a pointer to a copy of it (assign on that
\* pointer: the checks of assign, then assignPtr on a pointer that cannot be
\* set), and the copy is stored back when no error came back.
assignBasic(a, targetVal, targetKey, source, sourceKey, md) ==
  IF ~IsNil(targetVal.v)
  THEN LET held == targetVal.v
           same == /\ a.config.SkipSameValues
                   /\ Kind(source.t) = "ptr" /\ ElemT(source.t) = held.t
                   /\ DeepEqual(held, source.v.p)
           store(r) ==
             IF r.panic THEN r
             ELSE IF r.err # NoErr
                  THEN [r EXCEPT !.val = IF Kind(held.t) = "ptr" /\ ~held.v.isnil
                                         THEN V(targetVal.t, @) ELSE targetVal]
                  ELSE [r EXCEPT !.val = V(targetVal.t, @)]
       IN  IF same
           THEN Res(targetVal, NoErr,
                    addMetaUnset(a, addMetaUnused(a, md, sourceKey), targetKey))
           ELSE IF IsNilValue(Indirect(source))
                THEN Res(targetVal, NoErr, addMetaKey(a, md, targetKey))
           ELSE store(assign(a, held, targetKey, source, sourceKey, md))
  ELSE Res(V(targetVal.t, source), NoErr, md)

\* a mutant of assignPtr: the pointer is set to the pointee whatever the
\* nested assign returned
assignPtrSetsAnyway(a, targetVal, targetKey, source, sourceKey, md) ==
  IF IsNil(source) \/ IsNilValue(Indirect(source))
  THEN Res(NilPtrV(targetVal.t), NoErr, md)
  ELSE LET realVal == IF targetVal.v.isnil THEN Zero(ElemT(targetVal.t))
                      ELSE targetVal.v.p
           r == assign(a, realVal, targetKey, source, sourceKey, md)
       IN  [r EXCEPT !.val = PtrV(targetVal.t, @), !.addKey = FALSE]

assignPtr(a, targetVal, targetKey, source, sourceKey, md) ==
  IF IsNil(source) \/ IsNilValue(Indirect(source))
  THEN Res(NilPtrV(targetVal.t), NoErr, md)
  ELSE LET realVal == IF targetVal.v.isnil THEN Zero(ElemT(targetVal.t))
                      ELSE targetVal.v.p
           set(r) ==
             IF r.panic \/ r.err # NoErr
             THEN [r EXCEPT !.val = IF targetVal.v.isnil THEN targetVal
                                    ELSE PtrV(targetVal.t, @),
                            !.addKey = FALSE]
             ELSE [r EXCEPT !.val = PtrV(targetVal.t, @), !.addKey = FALSE]
       IN  set(assign(a, realVal, targetKey, source, sourceKey, md))

\* the source of a struct handler: the struct, and whether it was reached
\* through a pointer (and so is addressable)
StructSource(source) == [val |-> Indirect(source), canSet |-> Kind(source.t) = "ptr"]

\* what the caller's source pointer points to after a handler ran
\* flattenStruct on the struct behind it (NilV: nothing changed)
SourceAfter(source, r) ==
  [r EXCEPT !.src = IF Kind(source.t) = "ptr" /\ ~IsNil(@) THEN PtrV(source.t, @)
                    ELSE NilV]

assignMap(a, targetVal, targetKey, source, sourceKey, md) ==
  CASE Kind(Indirect(source).t) = "map" ->
         assignMapFromMap(a, targetVal, targetKey, Indirect(source), sourceKey, md)
    [] Kind(Indirect(source).t) = "struct" ->
         SourceAfter(source,
                     assignMapFromStruct(a, targetVal, targetKey, StructSource(source),
                                         sourceKey, md))
    [] Kind(Indirect(source).t) \in {"array", "slice"} /\ a.config.WeaklyTypedInput ->
         assignMapFromSlice(a, targetVal, targetKey, Indirect(source), sourceKey, md)
    [] OTHER ->
         Res(targetVal,
             Errorf("'" \o targetKey \o "' expected a map, got '"
                    \o Kind(Indirect(source).t) \o "'"),
             md)

\* the loop of assignMapFromSlice over the indices i..Len-1; it returns at
\* the first error
RECURSIVE mapFromSliceLoop(_, _, _, _, _, _, _)
mapFromSliceLoop(a, targetVal, targetKey, sourceVal, sourceKey, md, i) ==
  IF i >= LenOf(sourceVal) THEN Res(targetVal, NoErr, md)
  ELSE LET next(r) ==
             IF r.panic \/ r.err # NoErr THEN r
             ELSE mapFromSliceLoop(a, r.val, targetKey, sourceVal, sourceKey, r.md, i + 1)
       IN  next(assign(a, targetVal, targetKey, Interface(IndexOf(sourceVal, i)),
                       newChild(sourceKey, "slice", Itoa(i)), md))

assignMapFromSlice(a, targetVal, targetKey, sourceVal, sourceKey, md) ==
  IF Kind(sourceVal.t) = "array" THEN Panic(targetVal, md)  \* IsNil of an array
  ELSE IF sourceVal.v.isnil THEN Res(targetVal, NoErr, md)
  ELSE IF LenOf(sourceVal) = 0
       THEN Res(MapV(targetVal.t, EmptyFn), NoErr, addMetaKey(a, md, targetKey))
  ELSE mapFromSliceLoop(a,
         IF targetVal.v.isnil THEN MapV(targetVal.t, EmptyFn) ELSE targetVal,
         targetKey, sourceVal, sourceKey, md, 0)

\* a mutant of SetMapIndex: the map is replaced by the one entry
SetMapIndexReplaces(mapVal, key, elem) ==
  MapV(mapVal.t, [k \in {key} |-> elem])

\* reflect.Value.SetMapIndex
SetMapIndex(mapVal, key, elem) ==
  MapV(mapVal.t, [k \in DOMAIN mapVal.v.m \cup {key} |->
                    IF k = key THEN elem ELSE mapVal.v.m[k]])

\* the loop of assignMapFromMap over sourceVal.MapKeys(), keys in range order;
\* acc = [val, errors, md, panic]
RECURSIVE mapFromMapLoop(_, _, _, _, _, _)
mapFromMapLoop(a, acc, targetKey, sourceVal, sourceKey, keys) ==
  IF keys = << >> \/ acc.panic THEN acc
  ELSE LET srcKey == Head(keys)
           sourceElem == sourceVal.v.m[srcKey]
           \* kr: the key converted to the target's key type, r: the element
           put(kr, r) ==
             IF kr.err # NoErr
             THEN [acc EXCEPT !.errors = appendErrors(@, kr.err)]
             ELSE IF r.panic THEN [acc EXCEPT !.panic = TRUE, !.md = r.md]
             ELSE IF r.err # NoErr
                  THEN [acc EXCEPT !.errors = appendErrors(@, r.err), !.md = r.md]
             ELSE [acc EXCEPT !.val = SetMapIndex(acc.val, kr.val, r.val), !.md = r.md]
           next(kStr, targetKeyVal, targetElem) ==
             LET childTargetKey == newChild(targetKey, "map", kStr)
                 childSourceKey == newChild(sourceKey, "map", kStr)
                 sk == shouldSkipKey(a, acc.md, childTargetKey, childSourceKey)
             IN  IF sk.skip THEN [acc EXCEPT !.md = sk.md]
                 ELSE put(assign(weakAssigner(a.iter), targetKeyVal, "",
                                 Interface(srcKey), "", acc.md),
                          assign(a, targetElem, childTargetKey, Interface(sourceElem),
                                 childSourceKey, acc.md))
       IN  mapFromMapLoop(a,
                          next(Sprintv(srcKey), Zero(KeyT(acc.val.t)),
                               Zero(ElemT(acc.val.t))),
                          targetKey, sourceVal, sourceKey, Tail(keys))

Acc(val, md) == [val |-> val, errors |-> << >>, md |-> md, panic |-> FALSE]

AccRes(acc) ==
  IF acc.panic THEN Panic(acc.val, acc.md) ELSE Res(acc.val, ErrOf(acc.errors), acc.md)

assignMapFromMap(a, targetVal, targetKey, sourceVal, sourceKey, md) ==
  IF sourceVal.v.isnil THEN Res(targetVal, NoErr, md)
  ELSE IF LenOf(sourceVal) = 0
       THEN Res(MapV(targetVal.t, EmptyFn), NoErr, addMetaKey(a, md, targetKey))
  ELSE AccRes(mapFromMapLoop(a,
         Acc(IF targetVal.v.isnil THEN MapV(targetVal.t, EmptyFn) ELSE targetVal, md),
         targetKey, sourceVal, sourceKey,
         MapRange(a.iter, [k \in DOMAIN sourceVal.v.m |-> Sprintv(k)])))

\* []any{source}
WrapSlice(source) == SliceV("[]any", << AnyV(source) >>)

\* a mutant of SetIndex: every write lands on the first element
SetIndexFirst(seqVal, i, x) ==
  IF Kind(seqVal.t) = "slice"
  THEN SliceV(seqVal.t, [seqVal.v.s EXCEPT ![1] = x])
  ELSE V(seqVal.t, [seqVal.v EXCEPT ![1] = x])

\* the write through targetValSlice.Index(i)
SetIndex(seqVal, i, x) ==
  IF Kind(seqVal.t) = "slice"
  THEN SliceV(seqVal.t, [seqVal.v.s EXCEPT ![i + 1] = x])
  ELSE V(seqVal.t, [seqVal.v EXCEPT ![i + 1] = x])

\* the loop of assignSlice over the source indices; acc.val is targetValSlice
RECURSIVE sliceLoop(_, _, _, _, _, _)
sliceLoop(a, acc, targetKey, sourceVal, sourceKey, i) ==
  IF i >= LenOf(sourceVal) \/ acc.panic THEN acc
  ELSE LET targetFieldKey == newChild(targetKey, "slice", Itoa(i))
           sourceFieldKey == newChild(sourceKey, "slice", Itoa(i))
           sk == shouldSkipKey(a, acc.md, targetFieldKey, sourceFieldKey)
           set(grown, r) ==
             IF r.panic
             THEN [acc EXCEPT !.val = SetIndex(grown, i, r.val), !.panic = TRUE,
                              !.md = r.md]
             ELSE [acc EXCEPT !.val = SetIndex(grown, i, r.val), !.md = r.md,
                              !.errors = appendErrors(@, r.err)]
           \* grown: the target slice with a zero element appended when it is
           \* shorter than i + 1
           next(grown) ==
             IF sk.skip THEN [acc EXCEPT !.val = grown, !.md = sk.md]
             ELSE set(grown,
                      assign(a, IndexOf(grown, i), targetFieldKey,
                             Interface(IndexOf(sourceVal, i)), sourceFieldKey, acc.md))
       IN  sliceLoop(a,
                     next(IF LenOf(acc.val) <= i
                          THEN SliceV(acc.val.t,
                                      Append(acc.val.v.s, Zero(ElemT(acc.val.t))))
                          ELSE acc.val),
                     targetKey, sourceVal, sourceKey, i + 1)

assignSlice(a, targetVal, targetKey, source, sourceKey, md) ==
  LET done(acc) ==
        IF acc.panic THEN Panic(targetVal, acc.md)
        ELSE Res(acc.val, ErrOf(acc.errors), acc.md)
      \* n: sourceVal.Len(), zero: the zero value of the element type
      from(sourceVal, sourceValKind, n, zero) ==
        LET targetValSlice ==
              IF targetVal.v.isnil
              THEN SliceV(targetVal.t, [i \in 1..n |-> zero])
              ELSE IF LenOf(targetVal) > n
                   THEN SliceV(targetVal.t, SubSeq(targetVal.v.s, 1, n))
                   ELSE targetVal
        IN  IF sourceValKind \notin {"array", "slice"}
            THEN IF a.config.WeaklyTypedInput
                 THEN IF sourceValKind = "map" /\ n = 0
                      THEN Res(SliceV(targetVal.t, << >>), NoErr,
                               addMetaKey(a, md, targetKey))
                      ELSE assignSlice(a, targetVal, targetKey, WrapSlice(source),
                                       sourceKey, md)
                 ELSE Res(targetVal,
                          Errorf("'" \o targetKey
                                 \o "': source data must be an array or slice"),
                          md)
            ELSE IF sourceValKind # "array" /\ sourceVal.v.isnil
                 THEN Res(targetVal, NoErr, md)
            ELSE done(sliceLoop(a, Acc(targetValSlice, md), targetKey, sourceVal,
                                sourceKey, 0))
  IN  from(Indirect(source), Kind(Indirect(source).t), LenOf(Indirect(source)),
           Zero(ElemT(targetVal.t)))

\* interface equality of two arrays panics when the element type is not
\* comparable
Comparable(t) == Kind(ElemT(t)) \notin {"map", "slice"}

\* the loop of assignArray over the source indices; valArray.Index(i) panics
\* for i beyond the array
RECURSIVE arrayLoop(_, _, _, _, _, _)
arrayLoop(a, acc, targetKey, sourceVal, sourceKey, i) ==
  IF i >= LenOf(sourceVal) \/ acc.panic THEN acc
  ELSE LET targetFieldKey == newChild(targetKey, "array", Itoa(i))
           sourceFieldKey == newChild(sourceKey, "array", Itoa(i))
           sk == shouldSkipKey(a, acc.md, targetFieldKey, sourceFieldKey)
           set(r) ==
             IF r.panic
             THEN [acc EXCEPT !.val = SetIndex(acc.val, i, r.val), !.panic = TRUE,
                              !.md = r.md]
             ELSE [acc EXCEPT !.val = SetIndex(acc.val, i, r.val), !.md = r.md,
                              !.errors = appendErrors(@, r.err)]
           next ==
             IF i >= ArrLen(acc.val.t)
             THEN [acc EXCEPT !.panic = TRUE, !.oob = Append(@, i)]
             ELSE IF sk.skip THEN [acc EXCEPT !.md = sk.md]
             ELSE set(assign(a, IndexOf(acc.val, i), targetFieldKey,
                             Interface(IndexOf(sourceVal, i)), sourceFieldKey, acc.md))
       IN  arrayLoop(a, next, targetKey, sourceVal, sourceKey, i + 1)

\* acc of arrayLoop also records the out-of-range indices handed to Index
ArrAcc(val, md) ==
  [val |-> val, errors |-> << >>, md |-> md, panic |-> FALSE, oob |-> << >>]

LengthExceeded(targetKey, n, got) ==
  Errorf("'" \o targetKey \o "': expected source data to have length less or equal to "
         \o Itoa(n) \o ", got " \o Itoa(got))

assignArray(a, targetVal, targetKey, source, sourceKey, md) ==
  LET \* the result of the copy loop; isZero: the loop wrote to a new array
      done(acc, isZero) ==
        IF acc.panic
        THEN [Panic(IF isZero THEN targetVal ELSE acc.val, acc.md)
                EXCEPT !.err = IF Len(acc.oob) > 0
                               THEN Errorf("panic: index out of range")
                               ELSE Errorf("panic")]
        ELSE Res(acc.val, ErrOf(acc.errors), acc.md)
      \* n: sourceVal.Len(), zero: reflect.Zero of the array type
      from(sourceVal, sourceValKind, n, zero) ==
        LET isZero == targetVal = zero
            valArray == IF isZero THEN zero ELSE targetVal
            run == done(arrayLoop(a, ArrAcc(valArray, md), targetKey, sourceVal,
                                  sourceKey, 0),
                        isZero)
        IN  IF ~Comparable(targetVal.t) THEN Panic(targetVal, md)
            ELSE IF isZero
            THEN IF sourceValKind \notin {"array", "slice"}
                 THEN IF a.config.WeaklyTypedInput
                      THEN IF sourceValKind = "map"
                           THEN IF n = 0
                                THEN Res(zero, NoErr, addMetaKey(a, md, targetKey))
                                ELSE Res(targetVal,
                                         Errorf("'" \o targetKey
                                                \o "': source data must be an array or slice"),
                                         md)
                           ELSE assignArray(a, targetVal, targetKey, WrapSlice(source),
                                            sourceKey, md)
                      ELSE Res(targetVal,
                               Errorf("'" \o targetKey
                                      \o "': source data must be an array or slice"), md)
                 ELSE IF n > ArrLen(targetVal.t)
                      THEN Res(targetVal,
                               LengthExceeded(targetKey, ArrLen(targetVal.t), n), md)
                      ELSE run
            ELSE \* a populated target: no kind check and no length check
                 CASE sourceValKind \in {"array", "slice"} -> run
                   [] sourceValKind = "map" ->
                        IF n = 0 THEN Res(targetVal, NoErr, md)
                        ELSE Panic(targetVal, md)   \* Index of a map
                   [] sourceValKind \in {"bool", "int", "uint", "float", "struct"} ->
                        Panic(targetVal, md)        \* Len of a scalar
  IN  from(Indirect(source), Kind(Indirect(source).t), LenOf(Indirect(source)),
           Zero(targetVal.t))

assignStruct(a, targetVal, targetKey, source, sourceKey, md) ==
  CASE Kind(Indirect(source).t) = "map" ->
         assignStructFromMap(a, targetVal, targetKey, Indirect(source), sourceKey, md)
    [] Kind(Indirect(source).t) = "struct" ->
         SourceAfter(source,
                     assignStructFromStruct(a, targetVal, targetKey,
                                            StructSource(source), sourceKey, md))
    [] OTHER ->
         Res(targetVal,
             Errorf("'" \o targetKey \o "' expected a map, got '"
                    \o Kind(Indirect(source).t) \o "'"),
             md)

\* the loop of assignStructFromMap over the flattened target fields;
\* acc = [val, errors, md, panic, unused]: val is the target struct, unused
\* is unusedMapKeys
RECURSIVE structFromMapLoop(_, _, _, _, _, _, _)
structFromMapLoop(a, acc, targetFields, targetKey, sourceVal, sourceKey, names) ==
  IF names = << >> \/ acc.panic THEN acc
  ELSE LET targetField == targetFields[Head(names)]
           targetFieldKey == newChild(targetKey, "struct", targetField.displayName)
           sourceFieldKey == newChild(sourceKey, "map", targetField.actualName)
           sk == shouldSkipKey(a, acc.md, targetFieldKey, sourceFieldKey)
           used == [acc EXCEPT !.unused = @ \ {targetField.actualName}]
           set(r) ==
             IF r.panic
             THEN [used EXCEPT !.val = SlotSet(acc.val, targetField, r.val),
                               !.panic = TRUE, !.md = r.md]
             ELSE [used EXCEPT !.val = SlotSet(acc.val, targetField, r.val),
                               !.md = r.md, !.errors = appendErrors(@, r.err)]
           \* kr: the field's name converted to the map's key type
           next(kr) ==
             IF kr.err # NoErr THEN [acc EXCEPT !.errors = appendErrors(@, kr.err)]
             ELSE IF kr.val \notin DOMAIN sourceVal.v.m
                  THEN [acc EXCEPT !.md = addMetaUnset(a, @, targetFieldKey)]
             ELSE IF sk.skip THEN [acc EXCEPT !.md = sk.md]
             ELSE IF ~targetField.canSet
                  THEN [acc EXCEPT !.md = addMetaUnset(a, @, targetFieldKey)]
             ELSE set(assign(a, SlotGet(acc.val, targetField), targetFieldKey,
                             Interface(sourceVal.v.m[kr.val]), sourceFieldKey, acc.md))
       IN  structFromMapLoop(a,
                             next(assign(weakAssigner(a.iter), Zero(KeyT(sourceVal.t)),
                                         "", StrV(targetField.actualName), "", acc.md)),
                             targetFields, targetKey, sourceVal, sourceKey, Tail(names))

RECURSIVE addUnusedLoop(_, _, _, _, _)
addUnusedLoop(a, md, parentKind, sourceKey, names) ==
  IF names = << >> THEN md
  ELSE addUnusedLoop(a, addMetaUnused(a, md, newChild(sourceKey, parentKind, Head(names))),
                     parentKind, sourceKey, Tail(names))

\* the names of a Go map with string keys, in range order
RangeNames(a, names) == MapRange(a.iter, [n \in names |-> n])

assignStructFromMap(a, targetVal, targetKey, sourceVal, sourceKey, md) ==
  LET unusedMapKeys == { ValueString(k) : k \in DOMAIN sourceVal.v.m }
      \* after the loop: the keys left in unusedMapKeys go to Unused
      done(acc) ==
        IF acc.panic THEN Panic(acc.val, acc.md)
        ELSE Res(acc.val, ErrOf(acc.errors),
                 addUnusedLoop(a, acc.md, "map", sourceKey, RangeNames(a, acc.unused)))
      \* flat: the flattened target
      copy(flat) ==
        done(structFromMapLoop(a,
               [val |-> flat.root, errors |-> << >>, md |-> md, panic |-> FALSE,
                unused |-> unusedMapKeys],
               flat.fields, targetKey, sourceVal, sourceKey,
               RangeNames(a, DOMAIN flat.fields)))
  IN  IF Kind(KeyT(sourceVal.t)) \notin {"string", "interface"}
      THEN Res(targetVal,
               Errorf("'" \o targetKey \o "' needs a map with string keys"), md)
      ELSE copy(flattenStruct(a, targetVal, TRUE))

\* the loop of assignStructFromStruct; acc.unused is what is left of
\* sourceFields (their declared names), acc.src the source struct
RECURSIVE structFromStructLoop(_, _, _, _, _, _, _, _)
structFromStructLoop(a, acc, tfs, sfs, sourceRoot, targetKey, sourceKey, names) ==
  IF names = << >> \/ acc.panic THEN acc
  ELSE LET tfieldName == Head(names)
           targetField == tfs[tfieldName]
           targetFieldKey == newChild(targetKey, "struct", targetField.displayName)
           exist == tfieldName \in DOMAIN sfs
           sourceField == sfs[tfieldName]
           sourceFieldKey == newChild(sourceKey, "struct", sourceField.displayName)
           sk == shouldSkipKey(a, acc.md, targetFieldKey, sourceFieldKey)
           used == [acc EXCEPT !.unused = @ \ {tfieldName}]
           set(r) ==
             IF r.panic
             THEN [used EXCEPT !.val = SlotSet(acc.val, targetField, r.val),
                               !.panic = TRUE, !.md = r.md]
             ELSE [used EXCEPT !.val = SlotSet(acc.val, targetField, r.val),
                               !.md = r.md, !.errors = appendErrors(@, r.err)]
           next ==
             IF ~exist THEN [acc EXCEPT !.md = addMetaUnset(a, @, targetFieldKey)]
             ELSE IF sk.skip THEN [acc EXCEPT !.md = sk.md]
             ELSE IF ~targetField.canSet
                  THEN [acc EXCEPT !.md = addMetaUnset(a, @, targetFieldKey)]
             ELSE set(assign(a, SlotGet(acc.val, targetField), targetFieldKey,
                             Interface(SlotGet(sourceRoot, sourceField)),
                             sourceFieldKey, acc.md))
       IN  structFromStructLoop(a, next, tfs, sfs, sourceRoot,
                                targetKey, sourceKey, Tail(names))

\* assignStructFromStruct after the two flattenStruct calls: the loop over
\* the target fields and the loop over the source fields left. sourceRoot is
\* the source struct as it is when the fields are read.
copyFields(a, tfl, sfl, sourceRoot, targetKey, sourceKey, md) ==
  LET \* after the loop: the source fields left go to Unused
      done(acc) ==
        IF acc.panic THEN Panic(acc.val, acc.md)
        ELSE Res(acc.val, ErrOf(acc.errors),
                 addUnusedLoop(a, acc.md, "struct", sourceKey,
                               RangeNames(a, acc.unused)))
  IN  done(structFromStructLoop(a,
             [val |-> tfl.root, errors |-> << >>, md |-> md, panic |-> FALSE,
              unused |-> DOMAIN sfl.fields],
             tfl.fields, sfl.fields, sourceRoot, targetKey, sourceKey,
             RangeNames(a, DOMAIN tfl.fields)))

\* source = [val, canSet]: the source struct and whether it is addressable
assignStructFromStruct(a, targetVal, targetKey, source, sourceKey, md) ==
  LET \* tfl, sfl: the flattened target and the flattened source
      copy(tfl, sfl) ==
        [copyFields(a, tfl, sfl, sfl.root, targetKey, sourceKey, md)
           EXCEPT !.src = IF sfl.root = source.val THEN NilV ELSE sfl.root]
  IN  copy(flattenStruct(a, targetVal, TRUE),
           flattenStruct(a, source.val, source.canSet))

\* reflect.Type.AssignableTo for the types of the model
AssignableTo(from, to) == from = to \/ Kind(to) = "interface"

\* a mutant of isEmptyValue: no value counts as empty
isEmptyValueNever(x) == FALSE

isEmptyValue(x) ==
  LET isEmpty(kind) ==
        CASE kind \in {"array", "map", "slice"} -> LenOf(x) = 0
          [] kind = "string" -> x.v = ""
          [] kind = "bool" -> ~x.v
          [] kind \in {"int", "uint", "float"} -> x.v = 0
          [] kind \in {"interface", "ptr"} -> IsNilValue(x)
          [] OTHER -> FALSE
  IN  isEmpty(Kind(x.t))

\* a mutant of ToElem: an interface element is stored empty
ToElemEmpty(elemT, x) == IF Kind(elemT) = "interface" THEN V(elemT, NilV) ELSE x

\* what SetMapIndex stores for a field value: an interface element holds it
ToElem(elemT, x) == IF Kind(elemT) = "interface" THEN V(elemT, Interface(x)) ELSE x

\* the loop of assignMapFromStruct over the flattened source fields; it
\* returns at the first field that is not assignable to the element type.
\* A struct field that passed that test is stored as it is, so the branch
\* building a nested map for it is never reached.
RECURSIVE mapFromStructLoop(_, _, _, _, _, _, _)
mapFromStructLoop(a, acc, sourceFields, sourceRoot, targetKey, sourceKey, names) ==
  IF names = << >> \/ acc.errors # << >> THEN acc
  ELSE LET srcField == sourceFields[Head(names)]
           fieldVal == SlotGet(sourceRoot, srcField)
           elemT == ElemT(acc.val.t)
           targetFieldKey == newChild(targetKey, "map", srcField.actualName)
           sourceFieldKey == newChild(sourceKey, "struct", srcField.displayName)
           sk == shouldSkipKey(a, acc.md, targetFieldKey, sourceFieldKey)
           \* kr: the field's name converted to the map's key type
           store(kr) ==
             [acc EXCEPT !.val = SetMapIndex(acc.val, kr.val, ToElem(elemT, fieldVal)),
                         !.md = addMetaKey(a, acc.md, targetFieldKey)]
           next(stored) ==
             IF ~AssignableTo(srcField.type, elemT)
             THEN [acc EXCEPT !.errors = << "cannot assign type to map value field" >>]
             ELSE IF sk.skip THEN [acc EXCEPT !.md = sk.md]
             ELSE IF Kind(srcField.type) = "struct" THEN stored
             ELSE IF srcField.omitempty /\ isEmptyValue(fieldVal)
                  THEN [acc EXCEPT !.md = addMetaUnused(a, @, sourceFieldKey)]
             ELSE stored
       IN  mapFromStructLoop(a,
                             next(store(assign(weakAssigner(a.iter),
                                               Zero(KeyT(acc.val.t)), "",
                                               StrV(srcField.actualName), "", acc.md))),
                             sourceFields, sourceRoot, targetKey, sourceKey, Tail(names))

\* source = [val, canSet]
assignMapFromStruct(a, targetVal, targetKey, source, sourceKey, md) ==
  LET done(acc) ==
        Res(acc.val, IF acc.errors # << >> THEN Errorf(acc.errors[1]) ELSE NoErr, acc.md)
      \* sfl: the flattened source
      copy(sfl) ==
        [done(mapFromStructLoop(a,
                Acc(IF targetVal.v.isnil THEN MapV(targetVal.t, EmptyFn)
                    ELSE targetVal,
                    md),
                sfl.fields, sfl.root, targetKey, sourceKey,
                RangeNames(a, DOMAIN sfl.fields)))
           EXCEPT !.src = IF sfl.root = source.val THEN NilV ELSE sfl.root]
  IN  copy(flattenStruct(a, source.val, source.canSet))

\* ------------------------------------------------------------------------
\* The entry point
\* ------------------------------------------------------------------------
\* withConfig: the configs of a call applied to a copy of the assigner's
\* config (given here as the resulting config); the nil lists of a Metadata
\* sink are made empty. [a, md]
withConfig(a, config, sink) ==
  [a |-> [a EXCEPT !.config = config],
   md |-> IF config.Metadata THEN [sink EXCEPT !.init = TRUE] ELSE sink]

\* a mutant of rejectTarget: the call returns without an error
rejectTargetSilently(target, msg, sink) == Res(target, NoErr, sink)

\* the early returns of (*assigner).Assign: the error is returned before
\* withConfig and assign run
rejectTarget(target, msg, sink) == Res(target, Errorf(msg), sink)

\* (*assigner).Assign: target is the value passed as target (NilV for an
\* untyped nil), hasConfigs whether configs were passed, sink the Metadata
\* value the config points to. The result's val is the target argument
\* after the call, its md the sink after the call.
AssignCall(a, target, source, hasConfigs, config, sink) ==
  IF Kind(target.t) # "ptr"
  THEN rejectTarget(target, "target must be a pointer", sink)
  ELSE IF target.v.isnil
       THEN rejectTarget(target, "target must be addressable (a pointer)", sink)
  ELSE LET wc == IF hasConfigs THEN withConfig(a, config, sink)
                 ELSE [a |-> a, md |-> sink]
       IN  [assign(wc.a, target.v.p, "", source, "", wc.md)
              EXCEPT !.val = PtrV(target.t, @)]

\* Assign(target, source, configs...)
Assign(iter, target, source, config, sink) ==
  AssignCall(defaultAssigner(iter), target, source, TRUE, config, sink)

\* ------------------------------------------------------------------------
\* The program: a target variable, and calls of Assign on it
\* ------------------------------------------------------------------------
VARIABLES
  target,    \* the value of the target variable
  prev,      \* its value before the last call
  start,     \* its value before the first call
  arg,       \* the source passed to the last call
  src,       \* that source after the call
  passed,    \* what the last call was given as target
  cfg,       \* the config of the last call
  iter,      \* the order in which Go maps iterated in the last call
  err,       \* the error the last call returned
  md,        \* the Metadata sink of the last call
  panicked,  \* whether the last call panicked
  hist,      \* the sources of the calls so far
  op,        \* the kind of the last call
  fl,        \* a flattenStruct call run one worklist iteration at a time
  shared,    \* a source variable that two concurrent calls are given
  calls      \* the two concurrent calls

vars == << target, prev, start, arg, src, passed, cfg, iter, err, md, panicked,
           hist, op, fl, shared, calls >>

\* the variables of calls made one after the other
seqVars == << target, prev, start, arg, src, passed, cfg, iter, err, md, panicked,
              hist, op >>

NoFlatten == [pc |-> "idle"]
NoCalls == << >>

\* the order of Go map iteration is not specified: the model runs each call
\* under one of these orders of the names in use
NameOrder ==
  << "Vbar", "Vfoo", "Vint", "Vstring", "Vuint", "Vunique", "Vother",
     "BoolToInt", "IntToString", "UintToInt",
     "a", "b", "bar", "foo", "extra", "basic", "Basic",
     "vbar", "vfoo", "vint", "vstring", "vuint", "vunique",
     "Vextra", "title", "vextra", "Vlist", "vlist" >>

RECURSIVE Reverse(_)
Reverse(sq) == IF sq = << >> THEN << >> ELSE Append(Reverse(Tail(sq)), Head(sq))

Orders == { NameOrder, Reverse(NameOrder) }

StrictConfig == Config(FALSE, << >>, FALSE)
StrictMeta == Config(FALSE, << >>, TRUE)
WeakConfig == Config(TRUE, << >>, FALSE)
WeakMeta == Config(TRUE, << >>, TRUE)
\* a config whose TagName names a tag the record types do not carry
ObjectTag == [Config(FALSE, << >>, TRUE) EXCEPT !.TagName = "object"]

SeqInit(targets) ==
  /\ target \in targets
  /\ prev = target
  /\ start = target
  /\ arg = NilV
  /\ src = NilV
  /\ passed = NilV
  /\ cfg = StrictConfig
  /\ iter = NameOrder
  /\ err = NoErr
  /\ md = EmptyMeta
  /\ panicked = FALSE
  /\ hist = << >>
  /\ op = "init"

InitFrom(targets) ==
  /\ SeqInit(targets)
  /\ fl = NoFlatten
  /\ shared = NilV
  /\ calls = NoCalls

\* one call Assign(&target, source, config) with a fresh Metadata sink, in a
\* run of at most limit calls
Call(name, limit, source, config, it) ==
  /\ Len(hist) < limit
  /\ \E r \in { Assign(it, PtrV("*T", target), source, config, EmptyMeta) } :
       /\ target' = r.val.v.p
       /\ prev' = target
       /\ start' = start
       /\ arg' = source
       /\ src' = IF IsNil(r.src) THEN source ELSE r.src
       /\ passed' = PtrV("*T", target)
       /\ cfg' = config
       /\ iter' = it
       /\ err' = r.err
       /\ md' = r.md
       /\ panicked' = r.panic
       /\ hist' = Append(hist, source)
       /\ op' = name
  /\ UNCHANGED << fl, shared, calls >>

\* one call Assign(t, source, config) with a target t that is not a usable
\* pointer
CallWith(name, limit, t, source, config, it) ==
  /\ Len(hist) < limit
  /\ \E r \in { Assign(it, t, source, config, EmptyMeta) } :
       /\ target' = IF Kind(t.t) = "ptr" /\ ~t.v.isnil THEN r.val.v.p ELSE target
       /\ prev' = target
       /\ start' = start
       /\ arg' = source
       /\ src' = IF IsNil(r.src) THEN source ELSE r.src
       /\ passed' = t
       /\ cfg' = config
       /\ iter' = it
       /\ err' = r.err
       /\ md' = r.md
       /\ panicked' = r.panic
       /\ hist' = Append(hist, source)
       /\ op' = name
  /\ UNCHANGED << fl, shared, calls >>

\* ------------------------------------------------------------------------
\* Inputs
\* ------------------------------------------------------------------------
K(str) == StrV(str)

\* map[string]any literals over the keys ks with elements from vals
AnyMaps(ks, vals) ==
  UNION { { MapV("map[string]any", [k \in { K(n) : n \in sub } |-> AnyV(f[k.v])]) :
              f \in [sub -> vals] } : sub \in SUBSET ks }

\* the value a map[string]any source holds under a key, NilV when the key is
\* missing or holds nil
Under(source, key) ==
  IF K(key) \in DOMAIN source.v.m THEN Interface(source.v.m[K(key)]) ELSE NilV

HasKey(source, key) == K(key) \in DOMAIN source.v.m

\* the field `name` of a record, own or promoted from its embedded Basic
Member(x, name) ==
  IF name \in DOMAIN x.v THEN x.v[name]
  ELSE IF x.v["Basic"].t = "Basic" THEN x.v["Basic"].v[name]
  ELSE IF x.v["Basic"].v.isnil THEN Zero(FieldType("Basic", name))
  ELSE x.v["Basic"].v.p.v[name]

\* the result of converting x into an empty slot of type t, and whether the
\* conversion succeeds
ConvertTo(config, t, x) ==
  assign(Assigner(config, NameOrder), Zero(t), "", x, "", EmptyMeta).val
Converts(config, t, x) ==
  assign(Assigner(config, NameOrder), Zero(t), "", x, "", EmptyMeta).err = NoErr

\* ------------------------------------------------------------------------
\* Merging calls into one record (C1)
\* ------------------------------------------------------------------------
BasicSet(str, n, u) ==
  V("Basic", [Zero("Basic").v EXCEPT !["Vstring"] = V("string", str),
                                     !["Vint"] = V("int", n),
                                     !["Vuint"] = V("uint", u)])

MergeTargets == { Zero("Basic"), BasicSet("old", 0, 100), Zero("EmbeddedPointer") }

MergeSources == AnyMaps({"vstring", "vint"}, { NilV, IntV(42), StrV("foo") })

\* the scalar fields the merge is about: declared name, external name, type
MergeFields ==
  { [name |-> "Vstring", ext |-> "vstring", type |-> "string"],
    [name |-> "Vint", ext |-> "vint", type |-> "int"],
    [name |-> "Vuint", ext |-> "vuint", type |-> "uint"] }

AssignMerge ==
  \E source \in MergeSources, it \in Orders :
    Call("merge", MaxCalls, source, StrictConfig, it)

InitMerge == InitFrom(MergeTargets)
NextMerge == AssignMerge
SpecMerge == InitMerge /\ [][NextMerge]_vars

\* the value under key of the last source of h that holds a non-nil value
\* there (NilV: none)
RECURSIVE LastNonNil(_, _)
LastNonNil(h, key) ==
  IF h = << >> THEN NilV
  ELSE IF ~IsNil(Under(h[Len(h)], key)) THEN Under(h[Len(h)], key)
  ELSE LastNonNil(SubSeq(h, 1, Len(h) - 1), key)

\* the same, among the values that convert to type t
RECURSIVE LastConverting(_, _, _)
LastConverting(h, key, t) ==
  IF h = << >> THEN NilV
  ELSE IF ~IsNil(Under(h[Len(h)], key)) /\ Converts(StrictConfig, t, Under(h[Len(h)], key))
       THEN Under(h[Len(h)], key)
  ELSE LastConverting(SubSeq(h, 1, Len(h) - 1), key, t)

AbsentKeepsField ==
  \A f \in MergeFields :
    (hist # << >> /\ IsNil(Under(arg, f.ext))) => Member(target, f.name) = Member(prev, f.name)

\* C1 as stated: every field holds the value converted from the most recent
\* call whose source had a non-nil value under the field's external name, or
\* the value it had before the sequence; a call without the key (or with nil
\* under it) leaves the field unchanged.
C1_Original ==
  /\ \A f \in MergeFields :
       LET x == LastNonNil(hist, f.ext)
       IN  Member(target, f.name) =
             IF IsNil(x) THEN Member(start, f.name) ELSE ConvertTo(StrictConfig, f.type, x)
  /\ AbsentKeepsField

\* C1 amended: every flattened scalar field holds the value converted from
\* the most recent call whose source had, under the field's external name, a
\* non-nil value that converts to the field's type, or the value it had
\* before the sequence; a call without the key (or with nil under it) leaves
\* the field unchanged.
C1_MergeKeepsLatest ==
  /\ \A f \in MergeFields :
       LET x == LastConverting(hist, f.ext, f.type)
       IN  Member(target, f.name) =
             IF IsNil(x) THEN Member(start, f.name) ELSE ConvertTo(StrictConfig, f.type, x)
  /\ AbsentKeepsField

\* a second call without "vint" (or with nil there) after a first call that
\* set Vint
C1_Witness ==
  /\ Len(hist) = 2
  /\ Under(hist[1], "vint") = IntV(42)
  /\ IsNil(Under(hist[2], "vint"))
  /\ HasKey(hist[2], "vint")
  /\ Member(start, "Vint") = IntV(0)
  /\ Member(target, "Vint") = IntV(42)
  /\ Member(target, "Vuint") = V("uint", 100)

\* ------------------------------------------------------------------------
\* Mapping into mapping (C2)
\* ------------------------------------------------------------------------
StrMap(m) == MapV("map[string]string", m)

MapTargets ==
  { NilMapV("map[string]string"), StrMap(EmptyFn), StrMap(K("b") :> StrV("bar")),
    StrMap((K("a") :> StrV("old")) @@ (K("b") :> StrV("bar"))) }

MapSources ==
  AnyMaps({"a", "b"}, { StrV("foo"), IntV(42), NilV })
    \cup { NilMapV("map[string]any"),
           MapV("map[any]any", AnyV(K("a")) :> AnyV(StrV("foo"))),
           StrMap(K("a") :> StrV("foo")) }

AssignMapStrict ==
  \E source \in MapSources, it \in Orders :
    Call("mapStrict", OneCall, source, StrictConfig, it)

AssignMapWeak ==
  \E source \in MapSources, it \in Orders :
    Call("mapWeak", OneCall, source, WeakConfig, it)

InitMapMerge == InitFrom(MapTargets)
NextMapMerge == AssignMapStrict \/ AssignMapWeak
SpecMapMerge == InitMapMerge /\ [][NextMapMerge]_vars

\* the key of the target a source key is converted to
ConvKey(t, k) == ConvertTo(WeakConfig, KeyT(t), Interface(k))

\* the entries of S written into a map of type t: those of the keys in ks
Written(config, t, S, ks) ==
  [ key \in { ConvKey(t, k) : k \in ks } |->
      ConvertTo(config, ElemT(t),
                Interface(S.v.m[CHOOSE k \in ks : ConvKey(t, k) = key])) ]

\* the entries of T under the keys not in DOMAIN w, and the entries of w
Merged(T, w) ==
  [ key \in DOMAIN T.v.m \cup DOMAIN w |-> IF key \in DOMAIN w THEN w[key] ELSE T.v.m[key] ]

ConvertingKeys(config, t, S) ==
  { k \in DOMAIN S.v.m : Converts(config, ElemT(t), Interface(S.v.m[k])) }

ConvSet(b, str, u) ==
  V("TypeConversionResult",
    [Zero("TypeConversionResult").v EXCEPT !["BoolToInt"] = V("int", b),
                                           !["IntToString"] = V("string", str),
                                           !["UintToInt"] = V("int", u)])

ConvTargets == { Zero("TypeConversionResult"), ConvSet(7, "old", 7) }

ConvSources ==
  AnyMaps({"boolToInt", "intToString", "uintToInt"},
          { BoolV(TRUE), IntV(42), V("uint", 42), StrV("foo") })

ConvFields ==
  { [name |-> "BoolToInt", ext |-> "boolToInt", type |-> "int"],
    [name |-> "IntToString", ext |-> "intToString", type |-> "string"],
    [name |-> "UintToInt", ext |-> "uintToInt", type |-> "int"] }

AssignConvStrict ==
  \E source \in ConvSources, it \in Orders :
    Call("convStrict", OneCall, source, StrictMeta, it)

InitConv == InitFrom(ConvTargets)
NextConv == AssignConvStrict
SpecConv == InitConv /\ [][NextConv]_vars

\* the fields whose source value does not convert
FailingFields(config, source) ==
  { f \in ConvFields :
      ~IsNil(Under(source, f.ext)) /\ ~Converts(config, f.type, Under(source, f.ext)) }

\* the source without the keys of the fields fs
WithoutKeys(source, fs) ==
  MapV(source.t,
       [k \in DOMAIN source.v.m \ { K(f.ext) : f \in fs } |-> source.v.m[k]])

\* C3: when some scalar fields fail to convert under the strict config, the
\* call returns one aggregate error with one message per failing field, the
\* failing fields keep their values, and the target is what the same call
\* gives on the source without the failing keys.
C3_FailingFieldsKept ==
  LET failing == FailingFields(StrictConfig, arg)
  IN  (hist # << >> /\ failing # {}) =>
        /\ err.kind = "aggregate"
        /\ Len(err.msgs) = Cardinality(failing)
        /\ \A f \in failing :
             /\ target.v[f.name] = prev.v[f.name]
             /\ \E i \in 1..Len(err.msgs) : err.msgs[i] = Unconvertible(f.name).msgs[1]
        /\ target = Assign(iter, PtrV("*T", prev), WithoutKeys(arg, failing), cfg,
                           EmptyMeta).val.v.p

\* two fields fail on a populated record, the third is assigned
C3_Witness ==
  /\ hist # << >>
  /\ Cardinality(FailingFields(StrictConfig, arg)) = 2
  /\ prev = ConvSet(7, "old", 7)
  /\ target = ConvSet(7, "old", 42)

\* ------------------------------------------------------------------------
\* Targets that are not usable pointers (C4)
\* ------------------------------------------------------------------------
InvalidTargets ==
  { NilV, Zero("Basic"), BasicSet("old", 0, 100), StrV("x"), IntV(0),
    NilPtrV("*Basic"), NilPtrV("*int") }

TargetErrors ==
  { "target must be a pointer", "target must be addressable (a pointer)" }

AssignInvalid ==
  \E t \in InvalidTargets, source \in MergeSources, it \in Orders :
    CallWith("invalid", OneCall, t, source, StrictMeta, it)

AssignValid ==
  \E source \in MergeSources, it \in Orders :
    Call("valid", OneCall, source, StrictMeta, it)

InitTarget == InitFrom({ Zero("Basic"), BasicSet("old", 0, 100) })
NextTarget == AssignInvalid \/ AssignValid
SpecTarget == InitTarget /\ [][NextTarget]_vars

\* C4: a call whose target is not a pointer (untyped nil included) or is a
\* nil pointer returns one of the two target errors and leaves the target
\* variable, the source and the Metadata sink as they were; a call with a
\* non-nil pointer returns neither of the two errors.
C4_InvalidTargetRejected ==
  hist # << >> =>
    IF Kind(passed.t) # "ptr" \/ passed.v.isnil
    THEN /\ err.kind = "plain"
         /\ err.msgs[1] \in TargetErrors
         /\ target = prev
         /\ src = arg
         /\ md = EmptyMeta
         /\ ~panicked
    ELSE /\ \A i \in 1..Len(err.msgs) : err.msgs[i] \notin TargetErrors
         /\ md.init

\* a nil *Basic is rejected although the source has a value for Vint
C4_Witness ==
  /\ hist # << >>
  /\ passed = NilPtrV("*Basic")
  /\ Under(arg, "vint") = IntV(42)
  /\ err = Errorf("target must be addressable (a pointer)")
  /\ target = prev

\* ------------------------------------------------------------------------
\* Embedded records (C5)
\* ------------------------------------------------------------------------
NestedVstring == MapV("map[string]any", K("vstring") :> AnyV(StrV("nested")))

EmbeddedSet(t, str) ==
  V(t, [Zero(t).v EXCEPT !["Basic"] = BasicSet(str, 0, 100)])

EmbeddedTargets ==
  { Zero("Embedded"), Zero("EmbeddedPointer"), Zero("EmbeddedShadow"),
    Zero("EmbeddedOmit"), EmbeddedSet("Embedded", "old"),
    EmbeddedSet("EmbeddedShadow", "old"),
    V("EmbeddedPointer",
      [Zero("EmbeddedPointer").v EXCEPT
         !["Basic"] = PtrV("*Basic", BasicSet("old", 0, 100))]) }

EmbeddedSources ==
  AnyMaps({"vstring", "vunique", "basic"}, { StrV("foo"), NestedVstring })

AssignEmbedded ==
  \E source \in EmbeddedSources, it \in Orders :
    Call("embedded", OneCall, source, StrictMeta, it)

InitEmbedded == InitFrom(EmbeddedTargets)
NextEmbedded == AssignEmbedded
SpecEmbedded == InitEmbedded /\ [][NextEmbedded]_vars

InSeq(x, sq) == \E i \in 1..Len(sq) : sq[i] = x

\* promotion into the embedded Basic of a record of one of the types ts: a
\* top-level "vstring" that converts populates the embedded member,
\* a nil embedded pointer is allocated, and an entry under "basic" is left
\* unused
Promotes(ts) ==
  (hist # << >> /\ prev.t \in ts) =>
    /\ Under(arg, "vstring") = StrV("foo") =>
         Member(target, "Vstring") = StrV("foo")
    /\ Kind(FieldType(prev.t, "Basic")) = "ptr" => ~target.v["Basic"].v.isnil
    /\ ~HasKey(arg, "vstring") => Member(target, "Vstring") = Member(prev, "Vstring")
    /\ HasKey(arg, "basic") => InSeq("basic", md.Unused)

\* an explicit top-level Vstring shadows the embedded one
Shadows ==
  (hist # << >> /\ prev.t = "EmbeddedShadow") =>
    /\ Under(arg, "vstring") = StrV("foo") => target.v["Vstring"] = StrV("foo")
    /\ target.v["Basic"].v["Vstring"] = prev.v["Basic"].v["Vstring"]
    /\ HasKey(arg, "basic") => InSeq("basic", md.Unused)

\* C5 as stated: promotion for every record with an anonymous embedded
\* record, by value or by pointer.
C5_Original ==
  /\ Promotes({"Embedded", "EmbeddedPointer", "EmbeddedOmit"})
  /\ Shadows

\* C5 amended: when the embedded field is not left out of the flattening
\* (no "-" tag, and not omitempty with a zero value), a top-level key equal
\* to the external name of an embedded member populates that member, a nil
\* embedded pointer is allocated, an entry under the embedded field's own
\* name is unused, and an explicit top-level field of the same declared name
\* receives the value while the embedded member keeps its own.
C5_EmbeddedPromotion ==
  /\ Promotes({"Embedded", "EmbeddedPointer"})
  /\ Shadows

\* {"vstring": "foo", "basic": {...}} into a record with a nil embedded
\* *Basic: the pointer is allocated and Vstring set
C5_Witness ==
  /\ hist # << >>
  /\ prev = Zero("EmbeddedPointer")
  /\ Under(arg, "vstring") = StrV("foo")
  /\ Under(arg, "basic") = NestedVstring
  /\ ~target.v["Basic"].v.isnil
  /\ Member(target, "Vstring") = StrV("foo")

\* ------------------------------------------------------------------------
\* Metadata of a mapping-to-record assignment (C6)
\* ------------------------------------------------------------------------
\* the restrictions of {"vstring": "foo", "extra": "x"}
InnerMaps ==
  { MapV("map[string]any",
         [k \in { K(n) : n \in sub } |->
            IF k = K("vstring") THEN AnyV(StrV("foo")) ELSE AnyV(StrV("x"))]) :
      sub \in SUBSET {"vstring", "extra"} }

MetaExample ==
  MapV("map[string]any",
       (K("vfoo") :> AnyV(StrV("foo")))
         @@ (K("vbar") :> AnyV(MapV("map[string]any",
                                    (K("vstring") :> AnyV(StrV("foo")))
                                      @@ (K("extra") :> AnyV(StrV("x")))))))

MetaSources ==
  AnyMaps({"vfoo", "vbar"}, {StrV("foo"), NilV} \cup InnerMaps)
    \cup { MapV("map[string]any", MetaExample.v.m @@ (K("bar") :> AnyV(StrV("nil")))) }

AssignMeta ==
  \E source \in MetaSources, it \in Orders :
    Call("meta", OneCall, source, StrictMeta, it)

InitMeta == InitFrom({ Zero("VfooVbar"), Zero("Nested") })
NextMeta == AssignMeta
SpecMeta == InitMeta /\ [][NextMeta]_vars

SeqSet(sq) == { sq[i] : i \in 1..Len(sq) }
Position(x, sq) == CHOOSE i \in 1..Len(sq) : sq[i] = x

\* the target paths a source with no failing value writes
WrittenPaths(source) ==
  (IF ~IsNil(Under(source, "vfoo")) THEN {"Vfoo"} ELSE {})
    \cup (IF ~IsNil(Under(source, "vbar")) THEN {"Vbar"} ELSE {})
    \cup (IF ~IsNil(Under(source, "vbar"))
              /\ ~IsNil(Under(Under(source, "vbar"), "vstring"))
           THEN {"Vbar.Vstring"} ELSE {})

\* the source keys that match no field
UnmatchedPaths(source) ==
  { k.v : k \in DOMAIN source.v.m \ { K("vfoo"), K("vbar") } }
    \cup ( IF IsNil(Under(source, "vbar")) THEN {}
           ELSE { "vbar[" \o k.v \o "]" :
                    k \in DOMAIN Under(source, "vbar").v.m \ { K("vstring"), K("vint"), K("vuint") } } )

MaxSourceLen == 3

IntArray(x, y) == V("[2]int", << IntV(x), IntV(y) >>)

ArrayTargets == { Zero("[2]int"), IntArray(1, 0), IntArray(1, 2) }

RECURSIVE SeqsUpTo(_, _)
SeqsUpTo(S, n) ==
  IF n = 0 THEN { << >> }
  ELSE SeqsUpTo(S, n - 1)
         \cup { Append(sq, x) : sq \in { q \in SeqsUpTo(S, n - 1) : Len(q) = n - 1 }, x \in S }

ArraySources ==
  { SliceV("[]int", sq) : sq \in SeqsUpTo({ IntV(5), IntV(6) }, MaxSourceLen) }

AssignArrayStrict ==
  \E source \in ArraySources, it \in Orders :
    Call("arrayStrict", OneCall, source, StrictConfig, it)

AssignArrayWeak ==
  \E source \in ArraySources, it \in Orders :
    Call("arrayWeak", OneCall, source, WeakConfig, it)

InitArray == InitFrom(ArrayTargets)
NextArray == AssignArrayStrict \/ AssignArrayWeak
SpecArray == InitArray /\ [][NextArray]_vars

\* C7: a source longer than the array fails with the length error, nothing
\* at index N or beyond is indexed (no index-out-of-range panic) and nothing
\* is written, whether or not the target holds its zero value; a shorter
\* source into a zero-valued target sets the leading elements and leaves the
\* rest zero.
C7_ArrayLength ==
  hist # << >> =>
    /\ LenOf(arg) > ArrLen(prev.t) =>
         /\ ~panicked
         /\ err = LengthExceeded("", ArrLen(prev.t), LenOf(arg))
         /\ target = prev
    /\ (LenOf(arg) < ArrLen(prev.t) /\ prev = Zero(prev.t)) =>
         /\ err = NoErr
         /\ \A i \in 1..ArrLen(prev.t) :
              target.v[i] = IF i <= LenOf(arg) THEN arg.v.s[i] ELSE Zero(ElemT(prev.t))

\* ------------------------------------------------------------------------
\* The worklist of flattenStruct, one iteration at a time (C8)
\* ------------------------------------------------------------------------
MaxSteps == 8

NodeV(p) == V("Node", [Node |-> p, Vint |-> IntV(0)])

FlattenTargets ==
  { Zero("Basic"), Zero("Nested"), Zero("Embedded"), EmbeddedSet("Embedded", "old"),
    Zero("EmbeddedShadow"), Zero("EmbeddedPointer"), Zero("EmbeddedOmit"),
    V("EmbeddedPointer",
      [Zero("EmbeddedPointer").v EXCEPT !["Basic"] = PtrV("*Basic", Zero("Basic"))]),
    V("EmbeddedOmit",
      [Zero("EmbeddedOmit").v EXCEPT !["Basic"] = PtrV("*Basic", Zero("Basic"))]),
    NodeV(NilPtrV("*Node")), NodeV(PtrV("*Node", NodeV(NilPtrV("*Node")))) }

\* flattenStruct(val) is entered
StartFlatten ==
  \E t \in FlattenTargets, config \in { StrictConfig, ObjectTag }, canSet \in BOOLEAN :
    /\ fl.pc = "idle"
    /\ fl' = [pc |-> "flatten", a |-> Assigner(config, NameOrder), val |-> t,
              st |-> flattenStart(t, canSet), steps |-> 0]
    /\ UNCHANGED << seqVars, shared, calls >>

\* one iteration of its worklist loop
FlattenStep ==
  /\ fl.pc = "flatten"
  /\ Len(fl.st.structs) > 0
  /\ fl.steps < MaxSteps
  /\ fl' = [fl EXCEPT !.st = flattenIter(fl.a, @), !.steps = @ + 1]
  /\ UNCHANGED << seqVars, shared, calls >>

\* the worklist is empty: flattenStruct returns
FlattenReturn ==
  /\ fl.pc = "flatten"
  /\ Len(fl.st.structs) = 0
  /\ fl' = [fl EXCEPT !.pc = "done"]
  /\ UNCHANGED << seqVars, shared, calls >>

InitFlatten == InitFrom({ Zero("Basic") })
NextFlatten == StartFlatten \/ FlattenStep \/ FlattenReturn
SpecFlatten == InitFlatten /\ [][NextFlatten]_vars

\* the number of values a value is made of
RECURSIVE ValueSize(_)
RECURSIVE FieldsSize(_, _)
FieldsSize(x, i) ==
  IF i > Len(StructFields(x.t)) THEN 0
  ELSE ValueSize(x.v[StructFields(x.t)[i].name]) + FieldsSize(x, i + 1)
ValueSize(x) ==
  CASE Kind(x.t) = "struct" -> 1 + FieldsSize(x, 1)
    [] Kind(x.t) = "ptr" -> IF x.v.isnil THEN 1 ELSE 1 + ValueSize(x.v.p)
    [] OTHER -> 1

\* C8: the flattening worklist finishes after a number of iterations bounded
\* by the size of the value it is given.
C8_FlattenBounded ==
  fl.pc # "idle" => fl.steps <= ValueSize(fl.val)

\* ------------------------------------------------------------------------
\* Two concurrent calls with one source (C9)
\* ------------------------------------------------------------------------
\* Each call is Assign(&target_c, &shared, config_c) with its own target,
\* config and Metadata sink; the record target is assigned from the record
\* source by assignStructFromStruct, which runs in two steps: the two
\* flattenStruct calls, then the loops over the fields.
ConcSources ==
  { Zero("EmbeddedOmit"),
    V("EmbeddedOmit", [Zero("EmbeddedOmit").v EXCEPT !["Vunique"] = StrV("foo")]),
    Zero("EmbeddedPointer") }

ConcCall(t, config, it) ==
  [pc |-> "ready", a |-> Assigner(config, it), target0 |-> t, target |-> t,
   tfl |-> NilV, sfl |-> NilV, err |-> NoErr, md |-> EmptyMeta]

ConcCalls ==
  { ConcCall(t, config, it) :
      t \in { Zero("Basic"), BasicSet("old", 0, 100) },
      config \in { StrictMeta, ObjectTag },
      it \in Orders }

InitConc ==
  /\ SeqInit(ConcSources)
  /\ fl = NoFlatten
  /\ shared = target
  /\ calls \in { << c1, c2 >> : c1 \in ConcCalls, c2 \in ConcCalls }

\* call c enters Assign and assignStructFromStruct flattens target and
\* source; a nil embedded pointer of the source is allocated in the source
ConcFlatten(c) ==
  LET call == calls[c]
      wc == withConfig(defaultAssigner(call.a.iter), call.a.config, call.md)
  IN  /\ call.pc = "ready"
      /\ \E tfl \in { flattenStruct(call.a, call.target, TRUE) },
            sfl \in { flattenStruct(call.a, shared, TRUE) } :
           /\ shared' = sfl.root
           /\ calls' = [calls EXCEPT ![c] =
                          [call EXCEPT !.pc = "flattened", !.tfl = tfl, !.sfl = sfl,
                                       !.md = wc.md]]
      /\ UNCHANGED << seqVars, fl >>

\* call c runs the loops over the fields and returns
ConcCopy(c) ==
  LET call == calls[c]
  IN  /\ call.pc = "flattened"
      /\ \E r \in { copyFields(call.a, call.tfl, call.sfl, shared, "", "", call.md) } :
           calls' = [calls EXCEPT ![c] =
                       [call EXCEPT !.pc = "done", !.target = r.val, !.err = r.err,
                                    !.md = r.md]]
      /\ UNCHANGED << seqVars, fl, shared >>

NextConc == \E c \in 1..2 : ConcFlatten(c) \/ ConcCopy(c)
SpecConc == InitConc /\ [][NextConc]_vars

\* what call c gives when it runs alone on the source as it was at the start
Alone(c) ==
  LET r == Assign(calls[c].a.iter, PtrV("*T", calls[c].target0),
                  PtrV("*" \o start.t, start), calls[c].a.config, EmptyMeta)
  IN  [target |-> r.val.v.p, err |-> r.err, md |-> r.md]

\* C9: under every interleaving each of the two calls ends with the target,
\* error and metadata it has when it runs alone.
C9_NoInterference ==
  \A c \in 1..Len(calls) :
    calls[c].pc = "done" =>
      [target |-> calls[c].target, err |-> calls[c].err, md |-> calls[c].md] = Alone(c)

\* ------------------------------------------------------------------------
\* A sequence of mappings into a mapping (C10)
\* ------------------------------------------------------------------------
MaxElems == 2

AnyMap(m) == MapV("map[string]any", m)

ElemMaps ==
  { AnyMap(K("foo") :> AnyV(StrV("bar"))), AnyMap(K("bar") :> AnyV(StrV("baz"))),
    AnyMap(K("foo") :> AnyV(StrV("baz"))), AnyMap(EmptyFn),
    NilMapV("map[string]any") }

MapSeqSources ==
  { SliceV("[]map[string]any", sq) : sq \in SeqsUpTo(ElemMaps, MaxElems) }

MapSeqTargets ==
  { NilMapV("map[string]any"), AnyMap(EmptyFn), AnyMap(K("foo") :> AnyV(StrV("old"))) }

AssignSeqWeak ==
  \E source \in MapSeqSources, it \in Orders :
    Call("seqWeak", OneCall, source, WeakConfig, it)

AssignSeqStrict ==
  \E source \in MapSeqSources, it \in Orders :
    Call("seqStrict", OneCall, source, StrictConfig, it)

InitMapSeq == InitFrom(MapSeqTargets)
NextMapSeq == AssignSeqWeak \/ AssignSeqStrict
SpecMapSeq == InitMapSeq /\ [][NextMapSeq]_vars

\* the union of the entries of the maps of sq, a later map's entry
\* overriding an earlier one with the same key
RECURSIVE UnionOf(_)
UnionOf(sq) ==
  IF sq = << >> THEN EmptyFn
  ELSE LET last == sq[Len(sq)]
           rest == UnionOf(SubSeq(sq, 1, Len(sq) - 1))
       IN  [k \in DOMAIN rest \cup DOMAIN last.v.m |->
              IF k \in DOMAIN last.v.m THEN last.v.m[k] ELSE rest[k]]

\* C10: under weak typing a non-empty sequence of mappings assigned to a
\* mapping without entries yields the union of the elements' entries, later
\* elements overriding earlier ones; under the strict configuration the
\* assignment fails with the expected-a-map error and the target is unchanged.
C10_SequenceOfMaps ==
  (hist # << >> /\ LenOf(arg) > 0) =>
    IF cfg.WeaklyTypedInput
    THEN DOMAIN prev.v.m = {} =>
           /\ err = NoErr
           /\ target = AnyMap(UnionOf(arg.v.s))
    ELSE /\ err = Errorf("'' expected a map, got 'slice'")
         /\ target = prev

\* ------------------------------------------------------------------------
\* Sequences into variable-length sequences (C11)
\* ------------------------------------------------------------------------
IntSlice(sq) == SliceV("[]int", sq)

SliceTargets ==
  { NilSliceV("[]int"), IntSlice(<< >>), IntSlice(<< IntV(1) >>),
    IntSlice(<< IntV(1), IntV(2), IntV(3) >>) }

SliceSources ==
  { SliceV("[]any", sq) :
      sq \in SeqsUpTo({ AnyV(IntV(5)), AnyV(StrV("x")), AnyV(NilV) }, MaxElems) }
    \cup { NilSliceV("[]any"), NilSliceV("[]int"), IntSlice(<< IntV(5), IntV(6) >>) }

AssignSliceStrict ==
  \E source \in SliceSources, it \in Orders :
    Call("sliceStrict", OneCall, source, StrictConfig, it)

AssignSliceWeak ==
  \E source \in SliceSources, it \in Orders :
    Call("sliceWeak", OneCall, source, WeakConfig, it)

InitSlice == InitFrom(SliceTargets)
NextSlice == AssignSliceStrict \/ AssignSliceWeak
SpecSlice == InitSlice /\ [][NextSlice]_vars

\* the result of assigning x into a slot that holds prior
AssignedInto(config, prior, x) ==
  assign(Assigner(config, NameOrder), prior, "", x, "", EmptyMeta).val

\* element i (from 1) of a sequence target before the call, the zero value
\* of the element type where the target had no such element
PriorElem(T, i) ==
  IF ~T.v.isnil /\ i <= Len(T.v.s) THEN T.v.s[i] ELSE Zero(ElemT(T.t))

\* C11: after a non-nil sequence source of length n is assigned to a
\* variable-length sequence target, the target is non-nil with length n and
\* element i holds the result of assigning source element i into the prior
\* element i (the zero value where there was none); a nil source sequence
\* leaves the target unchanged.
C11_SliceLength ==
  hist # << >> =>
    IF arg.v.isnil THEN target = prev /\ err = NoErr
    ELSE /\ ~target.v.isnil
         /\ Len(target.v.s) = Len(arg.v.s)
         /\ \A i \in 1..Len(arg.v.s) :
              target.v.s[i] = AssignedInto(cfg, PriorElem(prev, i), Interface(arg.v.s[i]))

\* [1, 2, 3] is truncated by a source of two elements, and a nil target is
\* grown by it
C11_Witness ==
  /\ hist # << >>
  /\ arg = SliceV("[]any", << AnyV(IntV(5)), AnyV(IntV(5)) >>)
  /\ \/ prev = IntSlice(<< IntV(1), IntV(2), IntV(3) >>)
     \/ prev = NilSliceV("[]int")
  /\ target = IntSlice(<< IntV(5), IntV(5) >>)

\* ------------------------------------------------------------------------
\* Negative numbers into unsigned integers (C12)
\* ------------------------------------------------------------------------
\* Assign(target, source, configs...) of a program built for arch
AssignOn(it, arch, t, source, config, sink) ==
  AssignCall(AssignerOn(Config(FALSE, << >>, FALSE), it, arch), t, source, TRUE,
             config, sink)

\* one call Assign(&target, source, config) of a program built for arch
CallOn(name, limit, source, config, it, arch) ==
  /\ Len(hist) < limit
  /\ \E r \in { AssignOn(it, arch, PtrV("*T", target), source, config, EmptyMeta) } :
       /\ target' = r.val.v.p
       /\ prev' = target
       /\ start' = start
       /\ arg' = source
       /\ src' = IF IsNil(r.src) THEN source ELSE r.src
       /\ passed' = PtrV("*T", target)
       /\ cfg' = config
       /\ iter' = it
       /\ err' = r.err
       /\ md' = r.md
       /\ panicked' = r.panic
       /\ hist' = Append(hist, source)
       /\ op' = name
  /\ UNCHANGED << fl, shared, calls >>

UintTargets == { V("uint8", 0), V("uint8", 7), V("uint16", 0), V("uint16", 7) }

UintSources ==
  { IntV(-1), IntV(-42), V("int8", -1), IntV(42), V("uint", 7),
    V("float64", -100), V("float64", -4200), V("float64", 4200) }

AssignUintStrict ==
  \E source \in UintSources, it \in Orders, arch \in Architectures :
    CallOn("uintStrict", OneCall, source, StrictConfig, it, arch)

AssignUintWeak ==
  \E source \in UintSources, it \in Orders, arch \in Architectures :
    CallOn("uintWeak", OneCall, source, WeakConfig, it, arch)

InitUint == InitFrom(UintTargets)
NextUint == AssignUintStrict \/ AssignUintWeak
SpecUint == InitUint /\ [][NextUint]_vars

\* a negative signed integer or a negative float
Negative(x) == Kind(x.t) \in {"int", "float"} /\ x.v < 0

\* the integer a number stands for, a float cut at the decimal point
IntegerOf(x) == IF Kind(x.t) = "float" THEN TruncFloat(x.v) ELSE x.v

\* the two's-complement reading of n as an unsigned integer of the width
TwosComplement(n, bits) == n % (2 ^ bits)

\* C12: a negative signed integer or negative float assigned to an unsigned
\* integer target fails with the overflow error and leaves the target
\* unchanged under the strict configuration; under weak typing it succeeds
\* and stores the two's-complement wrap of the value (for -1 the maximum
\* value of the target's width).
C12_UnsignedOverflow ==
  (hist # << >> /\ Negative(arg)) =>
    IF ~cfg.WeaklyTypedInput
    THEN /\ err = Errorf("cannot parse '', overflows uint")
         /\ target = prev
    ELSE /\ err = NoErr
         /\ target = V(prev.t, TwosComplement(IntegerOf(arg), Bits(prev.t)))

\* ------------------------------------------------------------------------
\* Strict sources of an integer target (C13)
\* ------------------------------------------------------------------------
IntTargets == { IntV(0), IntV(7), V("int8", 0), V("int8", 7) }

\* numbers, booleans and texts (values of type string)
IntSources ==
  { IntV(42), IntV(-1), IntV(300), V("int8", 7), V("uint", 42), V("uint", 200),
    V("uint8", 1),
    V("float64", 4200), V("float64", 4299), V("float64", -4299), V("float64", 50),
    BoolV(TRUE), BoolV(FALSE), StrV("42"), StrV("foo"), StrV("") }

AssignIntStrict ==
  \E source \in IntSources, it \in Orders :
    Call("intStrict", OneCall, source, StrictConfig, it)

AssignIntWeak ==
  \E source \in IntSources, it \in Orders :
    Call("intWeak", OneCall, source, WeakConfig, it)

InitInt == InitFrom(IntTargets)
NextInt == AssignIntStrict \/ AssignIntWeak
SpecInt == InitInt /\ [][NextInt]_vars

\* n is f (in hundredths) with its fraction cut off: the integer nearest to
\* f among those between 0 and f
CutTowardZero(n, f) ==
  IF f >= 0 THEN n * 100 <= f /\ f < (n + 1) * 100
  ELSE n * 100 >= f /\ f > (n - 1) * 100

\* C13: under the strict configuration an integer target accepts an
\* integer, unsigned integer or float source, a float being truncated toward
\* zero (42.0 gives 42), and rejects a boolean or text source with an error,
\* the target keeping its prior value. (The value stored for an accepted
\* integer is the source's when the target's width holds it.)
C13_StrictInteger ==
  (hist # << >> /\ ~cfg.WeaklyTypedInput) =>
    CASE Kind(arg.t) \in {"int", "uint"} ->
           /\ err = NoErr
           /\ target.t = prev.t
           /\ (Bits(prev.t) = 64 \/ (-128 <= arg.v /\ arg.v <= 127)) => target.v = arg.v
      [] Kind(arg.t) = "float" ->
           err = NoErr /\ target.t = prev.t /\ CutTowardZero(target.v, arg.v)
      [] Kind(arg.t) \in {"bool", "string"} ->
           err # NoErr /\ target = prev

\* -42.99 into an integer holding 7 gives -42 under the strict configuration
C13_Witness ==
  /\ hist # << >>
  /\ ~cfg.WeaklyTypedInput
  /\ prev = IntV(7)
  /\ arg = V("float64", -4299)
  /\ err = NoErr
  /\ target = IntV(-42)

\* ------------------------------------------------------------------------
\* A record into a record (C14)
\* ------------------------------------------------------------------------
RenamedSet(str, n, u, x) ==
  V("Renamed", [Vstring |-> StrV(str), Vint |-> IntV(n), Vuint |-> V("uint", u),
                Vextra |-> StrV(x)])

RecordTargets ==
  { Zero("Basic"), BasicSet("old", 7, 100), Zero("Renamed"),
    RenamedSet("old", 7, 100, "kept") }

RecordSources ==
  { BasicSet(str, n, u) : str \in {"", "foo"}, n \in {0, 42}, u \in {0, 9} }
    \cup { RenamedSet(str, n, 9, x) : str \in {"", "foo"}, n \in {0, 42},
                                      x \in {"", "x"} }

AssignRecord ==
  \E source \in RecordSources, it \in Orders :
    Call("record", OneCall, source, StrictMeta, it)

InitRecord == InitFrom(RecordTargets)
NextRecord == AssignRecord
SpecRecord == InitRecord /\ [][NextRecord]_vars

\* the exported declared fields of a record type
Exported(t) == { f \in FieldNames(t) : IsExported(f) }

\* the declared field f of record type t
Declared(t, f) ==
  StructFields(t)[CHOOSE i \in 1..Len(StructFields(t)) : StructFields(t)[i].name = f]

\* the fields of record x that take part in the assignment: exported, not
\* tagged "-", and not tagged omitempty while holding the zero value
TakesPart(x) ==
  { f \in Exported(x.t) :
      /\ Declared(x.t, f).tag[1] # "-"
      /\ ~(InSeq("omitempty", Declared(x.t, f).tag) /\ x.v[f] = Zero(Declared(x.t, f).type)) }

IncludeIgnored == [StrictMeta EXCEPT !.IncludeIgnoreFields = TRUE]

OmitListSet(str, list) == V("OmitList", [Vfoo |-> StrV(str), Vlist |-> list])

ToMapTargets ==
  { NilMapV("map[string]any"), AnyMap(EmptyFn), AnyMap(K("foo") :> AnyV(StrV("old"))),
    StrMap(EmptyFn) }

ToMapSources ==
  { RenamedSet(str, n, 9, "x") : str \in {"", "foo"}, n \in {0, 42} }
    \cup { Zero("Embedded"), EmbeddedSet("Embedded", "foo"),
           V("struct{Vstring}", [Vstring |-> StrV("foo")]),
           V("Nested", [Vfoo |-> StrV("foo"), Vbar |-> BasicSet("bar", 1, 2)]) }
    \cup { OmitListSet("foo", list) :
             list \in { NilSliceV("[]any"), SliceV("[]any", << >>),
                        SliceV("[]any", << AnyV(IntV(5)) >>) } }

AssignToMap ==
  \E source \in ToMapSources, it \in Orders :
    Call("toMap", OneCall, source, StrictMeta, it)

AssignToMapIncluding ==
  \E source \in ToMapSources, it \in Orders :
    Call("toMapIncluding", OneCall, source, IncludeIgnored, it)

InitToMap == InitFrom(ToMapTargets)
NextToMap == AssignToMap \/ AssignToMapIncluding
SpecToMap == InitToMap /\ [][NextToMap]_vars

\* the fields of record x with the members of its anonymous embedded
\* records put at the top level: [fld, val], fld the declared field
Leaves(x) ==
  { [fld |-> Declared(x.t, f), val |-> x.v[f]] :
      f \in { g \in Exported(x.t) : ~Declared(x.t, g).anon } }
    \cup UNION { { [fld |-> Declared(x.v[e].t, f), val |-> x.v[e].v[f]] :
                     f \in Exported(x.v[e].t) } :
                 e \in { g \in Exported(x.t) : Declared(x.t, g).anon } }

\* the external name of a field: the tag name, or the lower-camel name
ExternalName(fld) ==
  IF fld.tag[1] \in {"", "-"} THEN toLowerCamel(fld.name) ELSE fld.tag[1]

\* the flattened fields: not tagged "-" unless IncludeIgnoreFields is set,
\* and not tagged omitempty while holding the zero value
Flattened(config, x) ==
  { l \in Leaves(x) :
      /\ l.fld.tag[1] = "-" => config.IncludeIgnoreFields
      /\ ~(InSeq("omitempty", l.fld.tag) /\ l.val = Zero(l.fld.type)) }

\* a zero value, or a sequence or mapping without elements
Empty(x) == x = Zero(x.t) \/ (Kind(x.t) \in {"slice", "map"} /\ LenOf(x) = 0)

\* the entries of the fields ls, keyed by external name, as elements of a
\* map of type t
EntriesOf(t, ls) ==
  [ key \in { K(ExternalName(l.fld)) : l \in ls } |->
      ToElem(ElemT(t), (CHOOSE l \in ls : K(ExternalName(l.fld)) = key).val) ]

AnySlotTargets ==
  { AnyV(Zero("Basic")), AnyV(BasicSet("old", 7, 100)),
    AnyV(PtrV("*Basic", Zero("Basic"))), AnyV(PtrV("*Basic", BasicSet("old", 7, 100))) }

AssignAnySlot ==
  \E source \in MergeSources, it \in Orders :
    Call("anySlot", OneCall, source, StrictConfig, it)

InitAnySlot == InitFrom(AnySlotTargets)
NextAnySlot == AssignAnySlot
SpecAnySlot == InitAnySlot /\ [][NextAnySlot]_vars

\* the record a polymorphic slot holds, directly or through a pointer
HeldRecord(slot) == IF Kind(slot.v.t) = "ptr" THEN slot.v.v.p ELSE slot.v

\* C16: a mapping assigned to a polymorphic slot that holds a record,
\* directly or through a pointer, is merged into the held record: when the
\* call succeeds the fields named in the mapping hold the converted values,
\* every other field of the held record keeps its value, and the slot
\* keeps its dynamic type.
C16_AnySlotMerges ==
  hist # << >> =>
    /\ target.t = "any"
    /\ target.v.t = prev.v.t
    /\ Kind(target.v.t) = "ptr" => ~target.v.v.isnil
    /\ HeldRecord(target).v["vsilent"] = HeldRecord(prev).v["vsilent"]
    /\ \A f \in MergeFields :
         /\ IsNil(Under(arg, f.ext)) =>
              HeldRecord(target).v[f.name] = HeldRecord(prev).v[f.name]
         /\ (err = NoErr /\ ~IsNil(Under(arg, f.ext))) =>
              HeldRecord(target).v[f.name] = ConvertTo(StrictConfig, f.type, Under(arg, f.ext))

\* {"vstring": "foo"} into a slot holding Basic{"old", 7, 100}
C16_Witness ==
  /\ hist # << >>
  /\ prev = AnyV(BasicSet("old", 7, 100))
  /\ arg = AnyMap(K("vstring") :> AnyV(StrV("foo")))
  /\ err = NoErr
  /\ target = AnyV(BasicSet("foo", 7, 100))

\* ------------------------------------------------------------------------
\* A record copied twice (C17)
\* ------------------------------------------------------------------------
\* fully populated records
CopySources ==
  { BasicSet("foo", 42, 9), RenamedSet("foo", 42, 9, "x"),
    V("Embedded", [Basic |-> BasicSet("foo", 42, 9), Vunique |-> StrV("u")]),
    V("EmbeddedPointer",
      [Basic |-> PtrV("*Basic", BasicSet("foo", 42, 9)), Vunique |-> StrV("u")]),
    V("EmbeddedOmit",
      [Basic |-> PtrV("*Basic", BasicSet("foo", 42, 9)), Vunique |-> StrV("u")]),
    V("Nested", [Vfoo |-> StrV("foo"), Vbar |-> BasicSet("bar", 1, 2)]),
    V("Map", [Vfoo |-> StrV("foo"), Vother |-> StrMap(K("a") :> StrV("x"))]) }

\* zero-valued targets
CopyTargets ==
  { Zero(t) : t \in {"Basic", "Renamed", "Embedded", "EmbeddedPointer", "EmbeddedOmit",
                     "Nested", "Map", "VfooVbar"} }

\* &x for the record types the model has a pointer type for, else x
Ref(x) ==
  IF x.t \in {"Basic", "Embedded", "EmbeddedPointer", "EmbeddedOmit"}
  THEN PtrV("*" \o x.t, x) ELSE x

\* Assign(&t1, s), s passed by value or by pointer
CopyFirst ==
  \E s \in CopySources, byRef \in BOOLEAN, it \in Orders :
   \E source \in { IF byRef THEN Ref(s) ELSE s } :
    /\ op = "init"
    /\ Call("copy1", MaxCalls, source, StrictConfig, it)

\* Assign(&t2, t1) with a fresh zero-valued t2 of the type of t1
CopyAgain ==
  \E byRef \in BOOLEAN, it \in Orders :
   \E source \in { IF byRef THEN Ref(target) ELSE target } :
    /\ op = "copy1"
    /\ CallWith("copy2", MaxCalls, PtrV("*T", Zero(target.t)), source, StrictConfig, it)

InitCopy == InitFrom(CopyTargets)
NextCopy == CopyFirst \/ CopyAgain
SpecCopy == InitCopy /\ [][NextCopy]_vars

\* C17: a fully populated record assigned to a zero-valued target t1, and t1
\* then assigned to a fresh zero-valued target t2 of the same type: both
\* calls succeed and t2 equals t1.
C17_CopyTwice ==
  /\ op = "copy1" => err = NoErr /\ ~panicked
  /\ op = "copy2" => err = NoErr /\ ~panicked /\ target = prev

\* Basic{"foo", 42, 9} into a zero EmbeddedPointer, and that one into another
C17_Witness ==
  /\ op = "copy2"
  /\ Indirect(hist[1]) = BasicSet("foo", 42, 9)
  /\ start = Zero("EmbeddedPointer")
  /\ prev = V("EmbeddedPointer",
              [Basic |-> PtrV("*Basic", BasicSet("foo", 42, 9)), Vunique |-> StrV("")])
  /\ target = prev

\* ------------------------------------------------------------------------
\* Integer to text and back under weak typing (C18)
\* ------------------------------------------------------------------------
TextTargets == { StrV(""), StrV("old") }

\* integers of the signed and unsigned types
NumberSources ==
  { IntV(n) : n \in {-1000, -129, -128, -42, -10, -1, 0, 1, 7, 9, 10, 42, 99, 100,
                     127, 128, 255, 1000} }
    \cup { V("int8", n) : n \in {-128, -42, -1, 0, 7, 42, 127} }
    \cup { V("uint", n) : n \in {0, 7, 42, 128, 255, 1000} }
    \cup { V("uint8", n) : n \in {0, 42, 255} }

\* Assign(&text, n) under weak typing
IntToText ==
  \E source \in NumberSources, it \in Orders :
    /\ op = "init"
    /\ Call("toText", MaxCalls, source, WeakConfig, it)

\* Assign(&i, text) under weak typing, i a zero integer and text the result
\* of IntToText
TextToInt ==
  \E t \in {"int", "int8"}, it \in Orders :
    /\ op = "toText"
    /\ CallWith("toInt", MaxCalls, PtrV("*T", Zero(t)), target, WeakConfig, it)

InitText == InitFrom(TextTargets)
NextText == IntToText \/ TextToInt
SpecText == InitText /\ [][NextText]_vars

\* the decimal numeral of n: a '-' for a negative n, then the digit of each
\* power of ten from the highest one that is not above |n|
RECURSIVE Places(_, _)
Places(n, k) ==
  IF k = 0 THEN Digit(n % 10) ELSE Digit((n \div (10 ^ k)) % 10) \o Places(n, k - 1)

Decimal(n) ==
  LET m == IF n < 0 THEN -n ELSE n
      k == CHOOSE j \in 0..6 : 10 ^ j <= (IF m = 0 THEN 1 ELSE m) /\ m < 10 ^ (j + 1)
  IN  (IF n < 0 THEN "-" ELSE "") \o Places(m, k)

\* n fits the signed integer type t
Fits(t, n) == Bits(t) = 64 \/ (-(2 ^ (Bits(t) - 1)) <= n /\ n < 2 ^ (Bits(t) - 1))

\* C18: under weak typing an integer n assigned to a text target gives the
\* decimal string of n, and that string assigned to an integer target that n
\* fits gives n back.
C18_NumeralRoundTrip ==
  /\ op = "toText" => err = NoErr /\ target = StrV(Decimal(arg.v))
  /\ (op = "toInt" /\ Fits(target.t, hist[1].v)) =>
        err = NoErr /\ arg = StrV(Decimal(hist[1].v)) /\ target.v = hist[1].v

\* -42 becomes "-42" and "-42" an int8 of -42
C18_Witness ==
  /\ op = "toInt"
  /\ hist[1] = IntV(-42)
  /\ arg = StrV("-42")
  /\ err = NoErr
  /\ target = V("int8", -42)

\* ------------------------------------------------------------------------
\* Keys and failed conversions (C19)
\* ------------------------------------------------------------------------
\* C19: a target path is in Metadata.Keys only if the assignment into that
\* location returned no error: the path of a field whose conversion failed
\* is never in Keys.
C19_KeysOnlyOnSuccess ==
  hist # << >> =>
    \A f \in FailingFields(StrictMeta, arg) : f.name \notin SeqSet(md.Keys)

\* ------------------------------------------------------------------------
\* A source that holds no value, into a pointer (C20)
\* ------------------------------------------------------------------------
StrSlice(sq) == SliceV("[]string", sq)
SlicePointerOf(p) == V("SlicePointer", [Vbar |-> p])

PointerTargets ==
  { SlicePointerOf(NilPtrV("*[]string")),
    SlicePointerOf(PtrV("*[]string", StrSlice(<< >>))),
    SlicePointerOf(PtrV("*[]string", StrSlice(<< StrV("yo") >>))) }

\* values with and without a value: slices, maps, a pointer, nil, and two
\* values that do not convert to []string
PointerValues ==
  { NilSliceV("[]string"), StrSlice(<< >>), StrSlice(<< StrV("a") >>),
    NilMapV("map[string]any"), NilPtrV("*int"), NilV,
    SliceV("[]any", << AnyV(StrV("a")), AnyV(IntV(5)) >>), IntV(5) }

PointerSources ==
  AnyMaps({"vbar", "vfoo"}, PointerValues)
    \cup { V("Slice", [Vfoo |-> StrV(str), Vbar |-> sl]) :
             str \in {"", "foo"},
             sl \in { NilSliceV("[]string"), StrSlice(<< >>), StrSlice(<< StrV("a") >>) } }

AssignPointer ==
  \E source \in PointerSources, it \in Orders :
    Call("pointer", OneCall, source, StrictMeta, it)

InitPointer == InitFrom(PointerTargets)
NextPointer == AssignPointer
SpecPointer == InitPointer /\ [][NextPointer]_vars

\* what the source holds for the field Vbar
ForVbar(source) ==
  IF Kind(source.t) = "map" THEN Under(source, "vbar") ELSE source.v.Vbar

\* a value of a pointer, interface, slice, map or function kind that holds
\* no value
HoldsNoValue(x) ==
  /\ ~IsNil(x)
  /\ Kind(x.t) \in {"ptr", "interface", "slice", "map", "func"}
  /\ x.v.isnil

\* C20: a source of a pointer, interface, slice, map or function kind that
\* holds no value, assigned to a pointer target, sets the pointer to nil
\* and does not add its path to Metadata.Keys.
C20_NilIntoPointer ==
  (hist # << >> /\ HoldsNoValue(ForVbar(arg))) =>
    /\ target.v.Vbar.v.isnil
    /\ "Vbar" \notin SeqSet(md.Keys)

\* the part of C20 the code has, for sources that are no pointer: the
\* pointer is set to nil
NilSliceClearsPointer ==
  (hist # << >> /\ HoldsNoValue(ForVbar(arg)) /\ Kind(ForVbar(arg).t) # "ptr") =>
    target.v.Vbar.v.isnil /\ err = NoErr

\* ------------------------------------------------------------------------
\* Errors of a record assigned to a mapping (C21)
\* ------------------------------------------------------------------------
\* the flattened fields of x whose type a map of type t cannot take
Unassignable(config, t, x) ==
  { l \in Flattened(config, x) : ~AssignableTo(l.fld.type, ElemT(t)) }

\* C21: errors are accumulated in a composite assignment; for a record
\* assigned to a mapping, a field that fails does not stop the other fields
\* from being written, and the failures come back as one aggregate error
\* with one message per failing field.
C21_ErrorsAccumulate ==
  (hist # << >> /\ Unassignable(cfg, prev.t, arg) # {}) =>
    LET good == { l \in Flattened(cfg, arg) \ Unassignable(cfg, prev.t, arg) :
                    ~(InSeq("omitempty", l.fld.tag) /\ Empty(l.val)) }
    IN  /\ err = AggErr(err.msgs)
        /\ Len(err.msgs) = Cardinality(Unassignable(cfg, prev.t, arg))
        /\ target = MapV(prev.t, Merged(prev, EntriesOf(prev.t, good)))

\* ------------------------------------------------------------------------
\* A nil entry of a source mapping (C22)
\* ------------------------------------------------------------------------
\* C22: in mapping-to-mapping assignment a source entry whose value is nil
\* is treated as absent: the target's entry under that key keeps its value.
C22_NilEntryKeeps ==
  (hist # << >> /\ ~arg.v.isnil) =>
    \A k \in DOMAIN arg.v.m :
      (IsNil(Interface(arg.v.m[k])) /\ ConvKey(prev.t, k) \in DOMAIN prev.v.m) =>
        /\ ConvKey(prev.t, k) \in DOMAIN target.v.m
        /\ target.v.m[ConvKey(prev.t, k)] = prev.v.m[ConvKey(prev.t, k)]

\* ------------------------------------------------------------------------
\* SkipKeys (C23)
\* ------------------------------------------------------------------------
VfooVbarSet(foo, str) ==
  V("VfooVbar", [Vfoo |-> StrV(foo), Vbar |-> V("struct{Vstring}", [Vstring |-> StrV(str)])])

SkipTargets == { Zero("VfooVbar"), VfooVbarSet("old", "old") }

SkipSources ==
  AnyMaps({"vfoo", "vbar"},
          { StrV("foo"), NilV, NestedVstring,
            MapV("map[string]any",
                 (K("vstring") :> AnyV(StrV("foo"))) @@ (K("extra") :> AnyV(StrV("x")))) })

\* SkipKeys lists: target paths, source paths, both, and a path of no location
SkipLists ==
  { << "Vfoo" >>, << "vfoo" >>, << "Vbar" >>, << "Vbar.Vstring" >>,
    << "vbar[vstring]", "Vfoo" >>, << "other" >> }

AssignSkipping ==
  \E source \in SkipSources, skip \in SkipLists, it \in Orders :
    Call("skip", OneCall, source, Config(FALSE, skip, TRUE), it)

InitSkip == InitFrom(SkipTargets)
NextSkip == AssignSkipping
SpecSkip == InitSkip /\ [][NextSkip]_vars

\* the locations of a VfooVbar target: target path, source path, the value
\* of the location in a record x
SkipLocations ==
  { [tp |-> "Vfoo", sp |-> "vfoo"], [tp |-> "Vbar", sp |-> "vbar"],
    [tp |-> "Vbar.Vstring", sp |-> "vbar[vstring]"] }

At(x, loc) ==
  CASE loc.tp = "Vfoo" -> x.v.Vfoo
    [] loc.tp = "Vbar" -> x.v.Vbar
    [] OTHER -> x.v.Vbar.v.Vstring

\* a path of the location is an entry of SkipKeys
Skipped(config, loc) == loc.tp \in SeqSet(config.SkipKeys) \/ loc.sp \in SeqSet(config.SkipKeys)

\* the source has an entry for the location, and for a nested location the
\* enclosing one is assigned from a mapping
HasEntry(config, source, loc) ==
  CASE loc.tp = "Vfoo" -> HasKey(source, "vfoo")
    [] loc.tp = "Vbar" -> HasKey(source, "vbar")
    [] OTHER -> /\ HasKey(source, "vbar")
                /\ ~Skipped(config, [tp |-> "Vbar", sp |-> "vbar"])
                /\ Kind(Under(source, "vbar").t) = "map"
                /\ HasKey(Under(source, "vbar"), "vstring")

C24_PointerSetLast ==
  (hist # << >> /\ prev.v.Vbar.v.isnil) =>
    /\ err # NoErr => target.v.Vbar.v.isnil
    /\ (err = NoErr /\ ~IsNil(ForVbar(arg)) /\ ~HoldsNoValue(ForVbar(arg))) =>
          target.v.Vbar = PtrV("*[]string", ForVbar(arg))

\* ["a", 5] does not convert to []string: the call fails and Vbar is nil
C24_Witness ==
  /\ hist # << >>
  /\ prev = SlicePointerOf(NilPtrV("*[]string"))
  /\ ForVbar(arg) = SliceV("[]any", << AnyV(StrV("a")), AnyV(IntV(5)) >>)
  /\ err # NoErr
  /\ target = prev

\* ------------------------------------------------------------------------
\* A record field of a record assigned to a mapping (C25)
\* ------------------------------------------------------------------------
\* C25: in record-to-mapping assignment a non-embedded field whose value is
\* a record is stored under its external name as a nested mapping built
\* from that record's flattened fields (here Nested.Vbar, a Basic, into a
\* mapping of polymorphic values).
C25_NestedRecordAsMap ==
  (hist # << >> /\ arg.t = "Nested" /\ Kind(ElemT(prev.t)) = "interface") =>
    /\ K("vbar") \in DOMAIN target.v.m
    /\ Interface(target.v.m[K("vbar")])
         = AnyMap(EntriesOf("map[string]any", Flattened(cfg, arg.v.Vbar)))

\* ------------------------------------------------------------------------
\* The source after the call (C26)
\* ------------------------------------------------------------------------
SourceTargets ==
  { Zero("Basic"), BasicSet("old", 7, 100), Zero("EmbeddedPointer"),
    NilMapV("map[string]any"), AnyMap(K("foo") :> AnyV(StrV("old"))) }

\* records passed by value and by pointer, with and without a nil embedded
\* pointer, and mappings
SourceValues ==
  { Zero("EmbeddedPointer"), Zero("EmbeddedOmit"), Zero("Embedded"),
    EmbeddedSet("Embedded", "foo"), BasicSet("foo", 42, 9),
    V("EmbeddedPointer",
      [Basic |-> PtrV("*Basic", BasicSet("foo", 42, 9)), Vunique |-> StrV("u")]) }

SourceArgs ==
  SourceValues \cup { Ref(x) : x \in SourceValues }
    \cup AnyMaps({"vstring", "vunique"}, { StrV("foo"), IntV(42) })

AssignFromSource ==
  \E source \in SourceArgs, weak \in BOOLEAN, it \in Orders :
    Call("fromSource", OneCall, source, Config(weak, << >>, TRUE), it)

InitSource == InitFrom(SourceTargets)
NextSource == AssignFromSource
SpecSource == InitSource /\ [][NextSource]_vars

\* C26: Assign never modifies the source: the source, a record reached
\* through a pointer and its embedded pointer fields included, is the same
\* after the call as before it.
C26_SourceUnchanged == hist # << >> => src = arg

\* the part of C26 the code has: a source passed by value, or one without
\* a nil embedded pointer that is flattened, is unchanged
ValueSourceUnchanged ==
  (hist # << >> /\ src # arg) =>
    /\ Kind(arg.t) = "ptr"
    /\ arg.v.p = Zero("EmbeddedPointer")
    /\ src = PtrV(arg.t, V("EmbeddedPointer",
                            [Basic |-> PtrV("*Basic", Zero("Basic")),
                             Vunique |-> StrV("")]))

\* ------------------------------------------------------------------------
\* A record into a mapping and back (C27)
\* ------------------------------------------------------------------------
RoundRecords ==
  { [BasicSet(str, n, u) EXCEPT !.v.vsilent = BoolV(b)] :
      str \in {"", "foo"}, n \in {0, 42}, u \in {0, 9}, b \in BOOLEAN }
    \cup { RenamedSet("foo", n, u, "x") : n \in {0, 42}, u \in {0, 9} }
    \cup { OmitListSet("foo", list) :
             list \in { NilSliceV("[]any"), SliceV("[]any", << >>),
                        SliceV("[]any", << AnyV(IntV(5)) >>) } }
    \cup { Zero("Embedded"), EmbeddedSet("Embedded", "foo"),
           Zero("EmbeddedPointer"), Zero("EmbeddedOmit"),
           V("EmbeddedPointer",
             [Basic |-> PtrV("*Basic", BasicSet("foo", 42, 9)), Vunique |-> StrV("u")]),
           V("EmbeddedOmit",
             [Basic |-> PtrV("*Basic", BasicSet("foo", 42, 9)), Vunique |-> StrV("u")]),
           V("Nested", [Vfoo |-> StrV("foo"), Vbar |-> BasicSet("bar", 1, 2)]),
           V("Map", [Vfoo |-> StrV("foo"), Vother |-> StrMap(K("a") :> StrV("x"))]) }

\* Assign(&m, r), m an empty map[string]any
RecordToMapping ==
  \E r \in RoundRecords, it \in Orders :
    /\ op = "init"
    /\ Call("toMapping", MaxCalls, r, StrictConfig, it)

\* Assign(&r2, m), r2 a zero record of the type of r
MappingToRecord ==
  \E it \in Orders :
    /\ op = "toMapping"
    /\ CallWith("toRecord", MaxCalls, PtrV("*T", Zero(hist[1].t)), target, StrictConfig, it)

InitRound == InitFrom({ AnyMap(EmptyFn) })
NextRound == RecordToMapping \/ MappingToRecord
SpecRound == InitRound /\ [][NextRound]_vars

RECURSIVE ComesBack(_)
ComesBack(x) ==
  LET back(f, fld) ==
        IF ~IsExported(f) \/ fld.tag[1] = "-" \/ InSeq("omitempty", fld.tag)
        THEN Zero(fld.type)
        ELSE IF Kind(fld.type) = "struct" THEN ComesBack(x.v[f])
        ELSE IF fld.anon /\ Kind(fld.type) = "ptr"
        THEN PtrV(fld.type, ComesBack(IF x.v[f].v.isnil THEN Zero(ElemT(fld.type))
                                      ELSE x.v[f].v.p))
        ELSE x.v[f]
  IN  V(x.t, [f \in FieldNames(x.t) |-> back(f, Declared(x.t, f))])

MetaFields(T, source) ==
  { [path |-> "Vfoo", key |-> "vfoo", from |-> source],
    [path |-> "Vbar", key |-> "vbar", from |-> source] }
    \cup ( IF Kind(Under(source, "vbar").t) # "map" THEN {}
           ELSE { [path |-> "Vbar." \o f, key |-> toLowerCamel(f),
                   from |-> Under(source, "vbar")] :
                    f \in Exported(FieldType(T.t, "Vbar")) } )

C29_NoWrappedValue ==
  (hist # << >> /\ Kind(arg.t) \in {"int", "uint"}) =>
    err # NoErr \/ target.v = arg.v

\* ------------------------------------------------------------------------
\* Paths recorded once (C30)
\* ------------------------------------------------------------------------
NoRepeat(sq) == Len(sq) = Cardinality(SeqSet(sq))

\* C30: after a single call writing into a fresh Metadata, no path appears
\* more than once in Keys, more than once in Unused, or more than once in
\* Unset.
C30_PathsOnce ==
  hist # << >> =>
    NoRepeat(md.Keys) /\ NoRepeat(md.Unused) /\ NoRepeat(md.Unset)

====
